---- MODULE Spec2Model ----
(***************************************************************************)
(* FreeRCT resource container (RCD) loading: SpriteManager::Load and the   *)
(* block handlers of src/src/sprite_store.cpp.                             *)
(*                                                                         *)
(* A Load call is a process: LoadStart opens the file and checks its       *)
(* header, every LoadBlock step is one iteration of the dispatch loop     *)
(* (ReadBlockHeader, the handler of the tag, the registration of the      *)
(* result).  The stream is not fixed in advance: each step draws the next *)
(* thing found in the stream (a block, the end, a cut-off header) from    *)
(* StreamInputs, so every file up to the bounds is covered.               *)
(*                                                                         *)
(* RcdFileReader (CheckFileHeader, ReadBlockHeader, SkipBytes), LoadImage  *)
(* and TrackPiece::Load are not part of src/; they are modelled from the  *)
(* specification's description of block framing.                          *)
(***************************************************************************)
EXTENDS Integers, Sequences, FiniteSets, TLC

\* ------------------------------------------------------------------ bounds

\* Number of headers (file headers and block headers) read in a run, over
\* all its Load calls.
MaxHeaders == 4
\* Sprites of one widget border (sprite_store.h, not under src/).
WBS_COUNT == 2
\* Number of blocks of a file that is loaded in one piece
MaxFileLen == 3
\* Number of headers read in a run whose blocks are TEXT blocks that are
\* decoded string by string.
MaxTextRun == 3
\* The same for the TEXT blocks that reach the limits of the decoder.
MaxLimitRun == 2
\* Passes of the loop over the strings of a TEXT block taken as one step.
LoopChunk == 64
\* SpriteManagers a file is loaded into besides _sprite_manager.
MaxOthers == 2
\* Files of _rcd_collection.
MaxCollection == 3
\* StartBlock calls of a save.
MaxBlocks == 2
\* PutByte calls of a save.
MaxPayload == 1
\* Scopes open at a time.
MaxDepth == 2
\* Frames of a timed animation asked for its frame, their longest
\* duration, and the latest time asked for.
MaxFrames == 3
MaxDuration == 2
MaxTime == 7
\* Load calls in a run of loads on the same manager.
MaxLoads == 2
\* Columns and rows of the frame sets loaded.
MaxCells == 2
\* Scenery types of the two categories of the scenery window, instances it
\* makes, items it places, and voxels the mouse finds.
NumTrees == 6
NumFlowerbeds == 1
MaxInstances == 3
MaxItems == 2
MaxLocation == 1
\* Sprite references of a GSLP block: it stands for the count the checked
\* length gives, lengthof(indices) + TBN_COUNT + TPB_COUNT + ... of LoadGSLP.
GslpSprites == 2
\* Bytes of a page of a buffer.
PageSize == 256
\* Passes of the loop of ReadUtf8Text that are evaluated in one go.
ScanChunk == 8
\* Sprites of one path type (path.h, not under src/).
PATH_COUNT == 2
\* Sprites of one fence type (fence.h, not under src/).
FENCE_COUNT == 2
\* Number of fence types (fence.h, not under src/).
FENCE_TYPE_COUNT == 2
\* First and last animation type (person_type.h, not under src/).
ANIM_BEGIN == 1
ANIM_LAST == 2
\* The animation type of an animation that has none (person_type.h).
ANIM_INVALID == 255

\* ------------------------------------------------------- program constants

\* Number of sprites of a surface: the rows of _slope_rotation.
NUM_SLOPE_SPRITES == 23
\* The only tile width that has a sprite store (GetSpriteStore).
StoreSize == 64
\* Number of edges of a tile: the 4 of the block size LoadPDEC asks for.
EDGE_COUNT == 4

FileNames == {"a.rcd", "b.rcd"}

\* ----------------------------------------------------------------- objects

\* A decoded object (ImageData, TextData, TrackPiece, FrameSet,
\* TimedAnimation) is identified by the Load call and the block that made it.
Obj(load, blk) == <<load, blk>>
\* nullptr.
Null == <<0, 0>>

Min(a, b) == IF a < b THEN a ELSE b

\* ------------------------------------------------------------ std::map

EmptyMap == [k \in {} |-> Null]

\* std::map::find(key) != end()
MapHas(m, k) == k \in DOMAIN m

\* std::map::insert: an existing key keeps its value.
MapInsert(m, k, v) ==
  IF k \in DOMAIN m THEN m
  ELSE [x \in (DOMAIN m) \cup {k} |-> IF x = k THEN v ELSE m[x]]

\* map[key] = value: an existing key is overwritten.
MapAssign(m, k, v) ==
  [x \in (DOMAIN m) \cup {k} |-> IF x = k THEN v ELSE m[x]]

\* ------------------------------------------------- cross-reference lookup

\* LoadSpriteFromFile without its test for zero: 0 is looked up like any ID.
LoadSpriteFromFile_NoZero(val, sprites) ==
  IF ~MapHas(sprites, val) THEN [ok |-> FALSE, spr |-> Null]
  ELSE [ok |-> TRUE, spr |-> sprites[val]]

\* LoadSpriteFromFile: val is the uint32 read from the file.
LoadSpriteFromFile(val, sprites) ==
  IF val = 0 THEN [ok |-> TRUE, spr |-> Null]
  ELSE IF ~MapHas(sprites, val) THEN [ok |-> FALSE, spr |-> Null]
  ELSE [ok |-> TRUE, spr |-> sprites[val]]

\* LoadTextFromFile: val is the uint32 read from the file.
LoadTextFromFile(val, texts) ==
  IF val = 0 THEN [ok |-> TRUE, txt |-> Null]
  ELSE IF ~MapHas(texts, val) THEN [ok |-> FALSE, txt |-> Null]
  ELSE [ok |-> TRUE, txt |-> texts[val]]

\* The loops "for (sprnum ...) if (!LoadSpriteFromFile(rcd_file, sprites,
\* &dest[sprnum])) return false;": index of the first reference that fails,
\* Len(refs) + 1 when none does.
FirstBad(refs, sprites) ==
  LET bad == {i \in 1..Len(refs) : ~LoadSpriteFromFile(refs[i], sprites).ok}
  IN IF bad = {} THEN Len(refs) + 1
     ELSE CHOOSE i \in bad : \A j \in bad : i <= j

\* The destination array after such a loop: the entries before the first
\* failing reference are overwritten, the others keep their old value.
StoreSprites(refs, sprites, dest) ==
  LET f == FirstBad(refs, sprites)
  IN [i \in 1..Len(refs) |->
        IF i < f THEN LoadSpriteFromFile(refs[i], sprites).spr ELSE dest[i]]

\* What such a loop reports: whether it ran to the end, the number of
\* references it read, the objects nonzero references resolved to, and
\* whether it read a nonzero reference that is not registered.
SpriteLoop(refs, sprites) ==
  LET f == FirstBad(refs, sprites)
  IN [ok       |-> f > Len(refs),
      nrefs    |-> Min(f, Len(refs)),
      resolved |-> {sprites[refs[i]] : i \in {j \in 1..Len(refs) : j < f /\ refs[j] # 0}},
      dangling |-> f <= Len(refs)]

\* ------------------------------------------------------------ RcdFileReader

\* CheckFileHeader("RCDF", 2): the file starts with the magic and the
\* container-format version.
CheckFileHeader(hdr, magic, version) ==
  hdr.magic = magic /\ hdr.version = version

\* ReadBlockHeader: reads one (tag, version, length) triple.  Its only result
\* is a boolean, false when no complete header is left in the stream, be it
\* at a header boundary ("eof") or after a few stray bytes ("short").
ReadBlockHeader(inp) == inp.kind = "block"

\* SkipBytes(size): discards size bytes, fails when the stream holds fewer.
SkipBytes(blk, size) == blk.avail >= size

\* LoadImage (8PXL / 32PX): the decoder's verdict is part of the input.
LoadImage(blk) == blk.ok

\* TrackPiece::Load: the decoder's verdict is part of the input.
TrackPieceLoad(blk) == blk.ok

\* ------------------------------------------------------------------- SURF

\* SpriteManager::GetSpriteStore: only width 64 has a store.
GetSpriteStore(width) == width = StoreSize

\* A switch whose default branch takes the byte for grass.
GroundType_Default(gt) ==
  CASE gt = 17 -> "GTP_GRASS1"
    [] gt = 18 -> "GTP_GRASS2"
    [] gt = 19 -> "GTP_GRASS3"
    [] gt = 20 -> "GTP_UNDERGROUND"
    [] gt = 32 -> "GTP_DESERT"
    [] gt = 48 -> "GTP_CURSOR_TEST"
    [] gt = 49 -> "GTP_CURSOR_EDGE_TEST"
    [] OTHER   -> "GTP_GRASS0"

\* The ground type bytes of a SURF block.
GroundType(gt) ==
  CASE gt = 16 -> "GTP_GRASS0"
    [] gt = 17 -> "GTP_GRASS1"
    [] gt = 18 -> "GTP_GRASS2"
    [] gt = 19 -> "GTP_GRASS3"
    [] gt = 20 -> "GTP_UNDERGROUND"
    [] gt = 32 -> "GTP_DESERT"
    [] gt = 48 -> "GTP_CURSOR_TEST"
    [] gt = 49 -> "GTP_CURSOR_EDGE_TEST"
    [] OTHER   -> "GTP_INVALID"

GroundTypes ==
  {"GTP_GRASS0", "GTP_GRASS1", "GTP_GRASS2", "GTP_GRASS3", "GTP_UNDERGROUND",
   "GTP_DESERT", "GTP_CURSOR_TEST", "GTP_CURSOR_EDGE_TEST"}

\* SurfaceData::SurfaceData: all sprites nullptr.
SurfaceData == [i \in 1..NUM_SLOPE_SPRITES |-> Null]

\* SpriteManager::LoadSURF.  sd = &ss->surface[type] is the store's own
\* array: every reference that resolves is written into it at once.
LoadSURF(blk, sprites, surface) ==
  IF blk.version # 6 \/ blk.size # 2 + 2 + 2 + 4 * NUM_SLOPE_SPRITES
  THEN [ok |-> FALSE, nread |-> 0, resolved |-> {}, dangling |-> FALSE,
        surface |-> surface]
  ELSE
    LET type == GroundType(blk.gt)
    IN IF type = "GTP_INVALID"
       THEN [ok |-> FALSE, nread |-> 2, resolved |-> {}, dangling |-> FALSE,
             surface |-> surface]
       ELSE IF ~GetSpriteStore(blk.width)
       THEN [ok |-> FALSE, nread |-> 6, resolved |-> {}, dangling |-> FALSE,
             surface |-> surface]
       ELSE
         LET lp == SpriteLoop(blk.refs, sprites)
         IN [ok |-> lp.ok, nread |-> 6 + 4 * lp.nrefs,
             resolved |-> lp.resolved, dangling |-> lp.dangling,
             surface |-> [surface EXCEPT
                            ![type] = StoreSprites(blk.refs, sprites, @)]]

\* ------------------------------------------------------------------- GBOR

BorderWidgets ==
  {"left_tabbar", "tab_tabbar", "right_tabbar", "tabbar_panel", "titlebar",
   "button", "panel"}

\* BorderSpriteData::Clear.  metrics: border_top, border_left, border_right,
\* border_bottom, min_width, min_height, hor_stepsize, vert_stepsize.
BorderSpriteData ==
  [metrics |-> [i \in 1..8 |-> 0],
   normal  |-> [i \in 1..WBS_COUNT |-> Null],
   pressed |-> [i \in 1..WBS_COUNT |-> Null]]

\* The switch without its pressed cases: every type loads normal sprites.
BorderTarget_NeverPressed(tp) ==
  CASE tp = 1 -> [sprdata |-> "left_tabbar",  pressed |-> FALSE]
    [] tp \in {2, 3} -> [sprdata |-> "tab_tabbar", pressed |-> FALSE]
    [] tp = 4 -> [sprdata |-> "right_tabbar", pressed |-> FALSE]
    [] tp = 5 -> [sprdata |-> "tabbar_panel", pressed |-> FALSE]
    [] tp = 6 -> [sprdata |-> "titlebar",     pressed |-> FALSE]
    [] tp \in {7, 8} -> [sprdata |-> "button", pressed |-> FALSE]
    [] tp = 9 -> [sprdata |-> "panel",        pressed |-> FALSE]
    [] OTHER  -> [sprdata |-> "none",         pressed |-> FALSE]

\* The switch on the widget type of LoadGBOR: the sprite data selected and
\* whether the pressed sprites are loaded; "none" for the default branch.
BorderTarget(tp) ==
  CASE tp = 1 -> [sprdata |-> "left_tabbar",  pressed |-> FALSE]
    [] tp = 2 -> [sprdata |-> "tab_tabbar",   pressed |-> TRUE]
    [] tp = 3 -> [sprdata |-> "tab_tabbar",   pressed |-> FALSE]
    [] tp = 4 -> [sprdata |-> "right_tabbar", pressed |-> FALSE]
    [] tp = 5 -> [sprdata |-> "tabbar_panel", pressed |-> FALSE]
    [] tp = 6 -> [sprdata |-> "titlebar",     pressed |-> FALSE]
    [] tp = 7 -> [sprdata |-> "button",       pressed |-> FALSE]
    [] tp = 8 -> [sprdata |-> "button",       pressed |-> TRUE]
    [] tp = 9 -> [sprdata |-> "panel",        pressed |-> FALSE]
    [] OTHER  -> [sprdata |-> "none",         pressed |-> FALSE]

\* GuiSprites::LoadGBOR.  sprdata points into _gui_sprites: the eight metrics
\* are stored before any sprite reference is read.
LoadGBOR(blk, sprites, border) ==
  IF blk.version # 2 \/ blk.size # 2 + 8 * 1 + WBS_COUNT * 4
  THEN [ok |-> FALSE, nread |-> 0, resolved |-> {}, dangling |-> FALSE,
        border |-> border]
  ELSE
    LET t == BorderTarget(blk.tp)
    IN IF t.sprdata = "none"
       THEN [ok |-> FALSE, nread |-> 2, resolved |-> {}, dangling |-> FALSE,
             border |-> border]
       ELSE
         LET lp  == SpriteLoop(blk.refs, sprites)
             old == border[t.sprdata]
             new == IF t.pressed
                    THEN [old EXCEPT !.metrics = blk.metrics,
                            !.pressed = StoreSprites(blk.refs, sprites, @)]
                    ELSE [old EXCEPT !.metrics = blk.metrics,
                            !.normal = StoreSprites(blk.refs, sprites, @)]
         IN [ok |-> lp.ok, nread |-> 2 + 8 + 4 * lp.nrefs,
             resolved |-> lp.resolved, dangling |-> lp.dangling,
             border |-> [border EXCEPT ![t.sprdata] = new]]

\* ------------------------------------------------------------------- TEXT

\* "static const int MAX_NUM_TEXT_STRINGS = 512".
MAX_NUM_TEXT_STRINGS == 512

\* "char buffer[64*1024]": the bytes of all names and stored texts of a block.
TEXT_BUFFER_SIZE == 64 * 1024

\* "char lang_buffer[1000]": the language name, and a text that is discarded.
LANG_BUFFER_SIZE == 1000

\* The names of the languages of the program, in the order of their index.
LanguageNames == << <<101, 110, 95, 71, 66>>, <<110, 108, 95, 78, 76>> >>

LANGUAGE_COUNT == Len(LanguageNames)

\* GetLanguageIndex of a NUL-terminated language name: its index, -1 when
\* the program has no such language.
GetLanguageIndex(name) ==
  LET str == SubSeq(name, 1, Len(name) - 1)
  IN IF \E i \in 1..LANGUAGE_COUNT : LanguageNames[i] = str
     THEN (CHOOSE i \in 1..LANGUAGE_COUNT : LanguageNames[i] = str) - 1
     ELSE -1

\* GetUInt16 at position i of the payload p (little endian).
GetUInt16(p, i) == p[i] + 256 * p[i + 1]

\* RcdFileReader::GetBlob: the n bytes at p[pos].
GetBlob(p, pos, n) == [i \in 1..n |-> p[pos + i - 1]]

\* The length of the UTF-8 sequence a lead byte announces, 0 for a byte that
\* starts none.
Utf8Length(b) ==
  IF b < 128 THEN 1
  ELSE IF b >= 194 /\ b < 224 THEN 2
  ELSE IF b >= 224 /\ b < 240 THEN 3
  ELSE IF b >= 240 /\ b < 245 THEN 4
  ELSE 0

\* DecodeUtf8Char on the n bytes at p[i]: the length of the character
\* decoded, 0 when the bytes are no well-formed character.  The code point is
\* 0 exactly for the single byte 0.
DecodeUtf8Char(p, i, n) ==
  IF n < 1 THEN 0
  ELSE LET k == Utf8Length(p[i])
       IN IF k = 0 \/ k > n THEN 0
          ELSE IF \A j \in 1..(k - 1) : p[i + j] >= 128 /\ p[i + j] < 192
               THEN k ELSE 0

\* Up to n passes of the for(;;) loop of ReadUtf8Text: start, real_size and
\* where the loop stands: it goes on, it broke at the NUL code point, or it
\* returned false.
RECURSIVE Utf8Steps(_, _, _, _)
Utf8Steps(p, start, real_size, n) ==
  LET sz == DecodeUtf8Char(p, start, real_size)
  IN IF n = 0 THEN <<start, real_size, "goes on">>
     ELSE IF sz = 0 \/ sz > real_size THEN <<start, real_size, "false">>
     ELSE IF p[start] = 0 THEN <<start + sz, real_size - sz, "break">>
     ELSE Utf8Steps(p, start + sz, real_size - sz, n - 1)

\* Up to n passes of the loop from where r stands, evaluated as the passes
\* of its first half followed by those of its second half.
RECURSIVE Utf8Run(_, _, _)
Utf8Run(p, r, n) ==
  IF r[3] # "goes on" \/ n = 0 THEN r
  ELSE IF n <= ScanChunk THEN Utf8Steps(p, r[1], r[2], n)
  ELSE Utf8Run(p, Utf8Run(p, r, n \div 2), n - (n \div 2))

\* The loop run to its end: every pass but the last takes a byte or more
\* of real_size, so that it ends within real_size + 1 passes.
Utf8Loop(p, r) == Utf8Run(p, r, r[2] + 1)

\* The for(;;) loop of ReadUtf8Text: real_size when the loop breaks at the
\* NUL code point, -1 when it returns false.
Utf8Scan(p, start, real_size) ==
  IF Utf8Loop(p, <<start, real_size, "goes on">>)[3] = "false" THEN -1
  ELSE Utf8Loop(p, <<start, real_size, "goes on">>)[2]

\* A ReadUtf8Text that accepts a text without looking at its bytes.
ReadUtf8Text_Unchecked(p, pos, expected_length, buf_length, used_size) ==
  buf_length >= used_size + expected_length

\* ReadUtf8Text of the expected_length bytes at p[pos] into a buffer of
\* buf_length bytes of which used_size are taken: whether it returns true
\* (and then has advanced used_size by expected_length).
ReadUtf8Text(p, pos, expected_length, buf_length, used_size) ==
  /\ buf_length >= used_size + expected_length
  /\ Utf8Scan(p, pos, expected_length) = 0

\* The locals of TextData::Load before the first read; pos is the position
\* of the reader in the payload, the strings and the buffer hold nothing.
TextLocals(blk) ==
  [status |-> "run", pos |-> 1, length |-> blk.size, used_size |-> 0,
   used_strings |-> 0, strings |-> <<>>, buffer |-> <<>>, trs_length |-> 0,
   cur |-> Null]

\* "return false" in TextData::Load, the reader being at position pos.
TextFail(d, pos) == [d EXCEPT !.status = "fail", !.pos = pos]

\* The position of the reader after a ReadUtf8Text that started at pos: the
\* bytes are read unless the buffer has no room for them.
AfterUtf8Text(pos, expected_length, buf_length, used_size) ==
  IF buf_length < used_size + expected_length THEN pos
  ELSE pos + expected_length

\* A TextData::Load that takes any version.
TextBegin_AnyVersion(blk) == TextLocals(blk)

\* TextData::Load up to its loop: the version is checked before any read.
TextBegin(blk) ==
  IF blk.version # 2 THEN TextFail(TextLocals(blk), 1) ELSE TextLocals(blk)

\* A reader that drops the text of every translation.
ReadText_NoStore(p, d, lang_idx, tpos, text_length) ==
  IF ReadUtf8Text(p, tpos, text_length, LANG_BUFFER_SIZE, 0)
  THEN [d EXCEPT !.pos = tpos + text_length, !.length = @ - text_length]
  ELSE TextFail(d, AfterUtf8Text(tpos, text_length, LANG_BUFFER_SIZE, 0))

\* Lines 148-159: the text of a translation, text_length bytes at p[tpos].
\* A text in a language of the program goes to the buffer and the string
\* points at it; any other text goes to lang_buffer and is dropped.
ReadText(p, d, lang_idx, tpos, text_length) ==
  IF lang_idx >= 0
  THEN IF ReadUtf8Text(p, tpos, text_length, TEXT_BUFFER_SIZE, d.used_size)
       THEN [d EXCEPT !.cur.languages[lang_idx] = d.used_size,
                      !.buffer = @ \o GetBlob(p, tpos, text_length),
                      !.used_size = @ + text_length,
                      !.pos = tpos + text_length,
                      !.length = @ - text_length]
       ELSE TextFail(d, AfterUtf8Text(tpos, text_length, TEXT_BUFFER_SIZE,
                                      d.used_size))
  ELSE IF ReadUtf8Text(p, tpos, text_length, LANG_BUFFER_SIZE, 0)
       THEN [d EXCEPT !.pos = tpos + text_length, !.length = @ - text_length]
       ELSE TextFail(d, AfterUtf8Text(tpos, text_length, LANG_BUFFER_SIZE, 0))

\* A pass that does not compare the length of the translation with what is
\* left of the string.
ReadTranslation_NoRoom(p, d) ==
  LET tr_length   == GetUInt16(p, d.pos)
      lang_length == p[d.pos + 2]
  IN IF d.length < 3 THEN TextFail(d, d.pos)
     ELSE IF lang_length + 3 >= tr_length THEN TextFail(d, d.pos + 3)
     ELSE IF ~ReadUtf8Text(p, d.pos + 3, lang_length, LANG_BUFFER_SIZE, 0)
     THEN TextFail(d, AfterUtf8Text(d.pos + 3, lang_length, LANG_BUFFER_SIZE, 0))
     ELSE ReadText(p, [d EXCEPT !.length = @ - 3 - lang_length,
                                !.trs_length = @ - tr_length],
                   GetLanguageIndex(GetBlob(p, d.pos + 3, lang_length)),
                   d.pos + 3 + lang_length, tr_length - (lang_length + 3))

\* Lines 131-160: one pass of the loop over the translations of a string.
ReadTranslation(p, d) ==
  LET tr_length   == GetUInt16(p, d.pos)
      lang_length == p[d.pos + 2]
  IN IF d.length < 3 THEN TextFail(d, d.pos)
     ELSE IF tr_length > d.trs_length THEN TextFail(d, d.pos + 3)
     ELSE IF lang_length + 3 >= tr_length THEN TextFail(d, d.pos + 3)
     ELSE IF ~ReadUtf8Text(p, d.pos + 3, lang_length, LANG_BUFFER_SIZE, 0)
     THEN TextFail(d, AfterUtf8Text(d.pos + 3, lang_length, LANG_BUFFER_SIZE, 0))
     ELSE ReadText(p, [d EXCEPT !.length = @ - 3 - lang_length,
                                !.trs_length = @ - tr_length],
                   GetLanguageIndex(GetBlob(p, d.pos + 3, lang_length)),
                   d.pos + 3 + lang_length, tr_length - (lang_length + 3))

\* "while (trs_length > 0)".
RECURSIVE ReadTranslations(_, _)
ReadTranslations(p, d) ==
  IF d.status # "run" \/ d.trs_length <= 0 THEN d
  ELSE ReadTranslations(p, ReadTranslation(p, d))

\* Lines 161-162: the end of a pass of the loop over the strings.
EndString(d) ==
  IF d.status # "run" THEN d
  ELSE IF d.trs_length # 0 THEN [d EXCEPT !.status = "assert"]
  ELSE [d EXCEPT !.strings = Append(@, d.cur), !.used_strings = @ + 1]

\* A char pointer that is nullptr (the others are offsets).
NoString == -1

\* A TextString as its constructor leaves it, but for the name.
TextString(name) ==
  [name |-> name, languages |-> [l \in 0..(LANGUAGE_COUNT - 1) |-> NoString]]

\* A loop over the strings that does not count them.
ReadString_NoCount(p, d) ==
  LET str_length   == GetUInt16(p, d.pos)
      ident_length == p[d.pos + 2]
  IN IF d.length < 3 THEN TextFail(d, d.pos)
     ELSE IF str_length > d.length THEN TextFail(d, d.pos + 3)
     ELSE IF ident_length + 2 + 1 >= str_length THEN TextFail(d, d.pos + 3)
     ELSE IF ~ReadUtf8Text(p, d.pos + 3, ident_length, TEXT_BUFFER_SIZE, d.used_size)
     THEN TextFail(d, AfterUtf8Text(d.pos + 3, ident_length, TEXT_BUFFER_SIZE,
                                    d.used_size))
     ELSE EndString(ReadTranslations(p,
            [d EXCEPT !.pos = @ + 3 + ident_length,
                      !.length = @ - 3 - ident_length,
                      !.trs_length = str_length - (ident_length + 3),
                      !.cur = TextString(d.used_size),
                      !.buffer = @ \o GetBlob(p, d.pos + 3, ident_length),
                      !.used_size = @ + ident_length]))

\* A loop over the strings that does not compare the length of a string
\* with what is left of the block.
ReadString_NoFit(p, d) ==
  LET str_length   == GetUInt16(p, d.pos)
      ident_length == p[d.pos + 2]
  IN IF d.used_strings >= MAX_NUM_TEXT_STRINGS THEN TextFail(d, d.pos)
     ELSE IF d.length < 3 THEN TextFail(d, d.pos)
     ELSE IF ident_length + 2 + 1 >= str_length THEN TextFail(d, d.pos + 3)
     ELSE IF ~ReadUtf8Text(p, d.pos + 3, ident_length, TEXT_BUFFER_SIZE, d.used_size)
     THEN TextFail(d, AfterUtf8Text(d.pos + 3, ident_length, TEXT_BUFFER_SIZE,
                                    d.used_size))
     ELSE EndString(ReadTranslations(p,
            [d EXCEPT !.pos = @ + 3 + ident_length,
                      !.length = @ - 3 - ident_length,
                      !.trs_length = str_length - (ident_length + 3),
                      !.cur = TextString(d.used_size),
                      !.buffer = @ \o GetBlob(p, d.pos + 3, ident_length),
                      !.used_size = @ + ident_length]))

\* Lines 114-162: one pass of "while (length > 0)", one string of the block.
ReadString(p, d) ==
  LET str_length   == GetUInt16(p, d.pos)
      ident_length == p[d.pos + 2]
  IN IF d.used_strings >= MAX_NUM_TEXT_STRINGS THEN TextFail(d, d.pos)
     ELSE IF d.length < 3 THEN TextFail(d, d.pos)
     ELSE IF str_length > d.length THEN TextFail(d, d.pos + 3)
     ELSE IF ident_length + 2 + 1 >= str_length THEN TextFail(d, d.pos + 3)
     ELSE IF ~ReadUtf8Text(p, d.pos + 3, ident_length, TEXT_BUFFER_SIZE, d.used_size)
     THEN TextFail(d, AfterUtf8Text(d.pos + 3, ident_length, TEXT_BUFFER_SIZE,
                                    d.used_size))
     ELSE EndString(ReadTranslations(p,
            [d EXCEPT !.pos = @ + 3 + ident_length,
                      !.length = @ - 3 - ident_length,
                      !.trs_length = str_length - (ident_length + 3),
                      !.cur = TextString(d.used_size),
                      !.buffer = @ \o GetBlob(p, d.pos + 3, ident_length),
                      !.used_size = @ + ident_length]))

\* "while (length > 0)" to its end.
RECURSIVE ReadStrings(_, _)
ReadStrings(p, d) ==
  IF d.status # "run" \/ d.length <= 0 THEN d
  ELSE ReadStrings(p, ReadString(p, d))

\* A TextData as its constructor leaves it.
NewTextData == [string_count |-> 0, strings |-> <<>>, text_data |-> <<>>]

\* The string a char pointer at offset off of text_data points at: the bytes
\* up to the first NUL, the NUL left out.
CString(text_data, off) ==
  LET nul == CHOOSE k \in (off + 1)..Len(text_data) :
               /\ text_data[k] = 0
               /\ \A j \in (off + 1)..(k - 1) : text_data[j] # 0
  IN SubSeq(text_data, off + 1, nul - 1)

\* A commit that leaves the strings of a failed load in the object.
TextCommit_Partial(obj, d) ==
  IF d.status = "assert" \/ (d.status = "run" /\ d.length # 0)
  THEN [ok |-> FALSE, abort |-> TRUE, nread |-> d.pos - 1, obj |-> obj]
  ELSE [ok |-> d.status = "run", abort |-> FALSE, nread |-> d.pos - 1,
        obj |-> [string_count |-> d.used_strings, strings |-> d.strings,
                 text_data |-> SubSeq(d.buffer, 1, d.used_size)]]

\* Lines 164-180: the return of TextData::Load on the object obj, the loop
\* having ended with the locals d.  A failed load leaves the object alone; a
\* load that succeeds gives it the strings, their count and a copy of the
\* used part of the buffer, the pointers rebased at that copy.
TextCommit(obj, d) ==
  IF d.status = "fail"
  THEN [ok |-> FALSE, abort |-> FALSE, nread |-> d.pos - 1, obj |-> obj]
  ELSE IF d.status = "assert" \/ d.length # 0
  THEN [ok |-> FALSE, abort |-> TRUE, nread |-> d.pos - 1, obj |-> obj]
  ELSE [ok |-> TRUE, abort |-> FALSE, nread |-> d.pos - 1,
        obj |-> [string_count |-> d.used_strings, strings |-> d.strings,
                 text_data |-> SubSeq(d.buffer, 1, d.used_size)]]

\* TextData::Load on a new TextData.
TextDataLoad(blk) ==
  TextCommit(NewTextData, ReadStrings(blk.payload, TextBegin(blk)))

\* ------------------------------------------------------------------- FSET

\* What a pointer holds that new ImageData*[n] made and nothing assigned.
Indeterminate == <<-1, -1>>

\* The loops of FrameSet::Load over the views i, the columns x and the rows
\* y: the reference read for (i, x, y) is reference number
\* i * width_x * width_y + x * width_y + y of the payload, and its sprite is
\* stored in sprites[i][x * width_y + y], for the width 64 only.
FrameSetSprites(blk, sprites) ==
  [i \in 0..3 |->
     [c \in 0..(blk.width_x * blk.width_y - 1) |->
        IF blk.width # 64 THEN Indeterminate
        ELSE LET x == c \div blk.width_y
                 y == c % blk.width_y
                 n == i * blk.width_x * blk.width_y + x * blk.width_y + y + 1
             IN IF n <= Len(blk.refs)
                THEN LoadSpriteFromFile(blk.refs[n], sprites).spr
                ELSE Null]]

\* FrameSet::Load.  The object is the caller's new FrameSet; its sprite
\* arrays come from new[] and an entry is assigned only for width 64.
\* (Sizes stay below 2^31, where static_cast<int> changes nothing.)
FrameSetLoad(blk, sprites) ==
  IF blk.version # 1 \/ blk.size < 4
  THEN [ok |-> FALSE, nread |-> 0, resolved |-> {}, dangling |-> FALSE,
        fset |-> Null]
  ELSE IF blk.size # 4 + 16 * blk.width_x * blk.width_y
  THEN [ok |-> FALSE, nread |-> 4, resolved |-> {}, dangling |-> FALSE,
        fset |-> Null]
  ELSE
    LET lp == SpriteLoop(blk.refs, sprites)
    IN [ok |-> lp.ok, nread |-> 4 + 4 * lp.nrefs,
        resolved |-> lp.resolved, dangling |-> lp.dangling,
        fset |-> [width   |-> blk.width,
                  width_x |-> blk.width_x,
                  width_y |-> blk.width_y,
                  sprites |-> FrameSetSprites(blk, sprites)]]

\* ------------------------------------------------------------------- TIMA

\* SpriteManager::GetFrameSet: the FrameSet object stored under the key
\* (file name, block number) in the store of the sprite manager, or nullptr.
GetFrameSet(frame_sets, key) ==
  IF MapHas(frame_sets, key) THEN frame_sets[key].obj ELSE Null

\* 8 * n in an int of 32 bits, n being one: the product wraps.
Int32Mul8(n) ==
  LET r == n % (2^29)
  IN IF r < 2^28 THEN 8 * r ELSE 8 * (r - 2^29)

\* TimedAnimation::Load.  The views are looked up in the global sprite
\* manager under (rcd_file->filename, reference) and stored as returned.
\* The size and the frame count of the block are held as the int of 32 bits
\* the test on the length compares (size < 4 is a test on the uint32).  A
\* negative count makes new[] throw; with a count past the payload the two
\* loops read on after the block.
TimedAnimationLoad(blk, filename, frame_sets) ==
  IF blk.version # 1 \/ (0 <= blk.size /\ blk.size < 4)
  THEN [ok |-> FALSE, nread |-> 0, resolved |-> {}, dangling |-> FALSE,
        anim |-> Null, fault |-> "none"]
  ELSE
    LET frames == blk.frames
    IN IF blk.size # 4 + Int32Mul8(frames)
       THEN [ok |-> FALSE, nread |-> 4, resolved |-> {}, dangling |-> FALSE,
             anim |-> Null, fault |-> "none"]
       ELSE IF frames < 0
       THEN [ok |-> FALSE, nread |-> 4, resolved |-> {}, dangling |-> FALSE,
             anim |-> Null, fault |-> "std::bad_array_new_length"]
       ELSE IF frames > Len(blk.refs)
       THEN [ok |-> TRUE, nread |-> 4, resolved |-> {}, dangling |-> FALSE,
             anim |-> Null, fault |-> "reads past the block"]
       ELSE
         LET views == [f \in 1..frames |->
                         GetFrameSet(frame_sets, <<filename, blk.refs[f]>>)]
         IN [ok |-> TRUE, nread |-> 4 + 8 * frames,
             resolved |-> {views[f] : f \in {g \in 1..frames : views[g] # Null}},
             dangling |-> \E f \in 1..frames :
                            blk.refs[f] # 0 /\ views[f] = Null,
             anim |-> [frames    |-> frames,
                       durations |-> blk.durations,
                       views     |-> views],
             fault |-> "none"]

\* ------------------------------------------------------------------- PATH

\* The references a handler reads when it reads n of them: those of the
\* payload, and zeros should it read on.
ReadRefs(blk, n) ==
  [i \in 1..n |-> IF i <= Len(blk.refs) THEN blk.refs[i] ELSE 0]

PathTypes == {"PAT_WOOD", "PAT_TILED", "PAT_ASPHALT", "PAT_CONCRETE"}

\* The switch of LoadPATH on the low 15 bits of the type.
PathType(code) ==
  CASE code = 4  -> "PAT_WOOD"
    [] code = 8  -> "PAT_TILED"
    [] code = 12 -> "PAT_ASPHALT"
    [] code = 16 -> "PAT_CONCRETE"
    [] OTHER     -> "PAT_INVALID"

\* Path::Path.
Path == [status |-> "PAS_UNUSED", sprites |-> [i \in 1..PATH_COUNT |-> Null]]

\* "(type & 0x8000) != 0 ? PAS_QUEUE_PATH : PAS_NORMAL_PATH" for a uint16.
PathStatus(type) ==
  IF (type \div 32768) % 2 = 1 THEN "PAS_QUEUE_PATH" ELSE "PAS_NORMAL_PATH"

\* A LoadPATH that sets the status before it reads the sprites.
LoadPATH_StatusFirst(blk, sprites, path_sprites) ==
  IF blk.version # 3 \/ blk.size # 2 + 2 + 2 + 4 * PATH_COUNT
  THEN [ok |-> FALSE, nread |-> 0, resolved |-> {}, dangling |-> FALSE,
        path_sprites |-> path_sprites]
  ELSE
    LET pt == PathType(blk.type % 32768)
        lp == SpriteLoop(ReadRefs(blk, PATH_COUNT), sprites)
    IN IF pt = "PAT_INVALID"
       THEN [ok |-> FALSE, nread |-> 2, resolved |-> {}, dangling |-> FALSE,
             path_sprites |-> path_sprites]
       ELSE IF ~GetSpriteStore(blk.width)
       THEN [ok |-> FALSE, nread |-> 6, resolved |-> {}, dangling |-> FALSE,
             path_sprites |-> path_sprites]
       ELSE [ok |-> lp.ok, nread |-> 6 + 4 * lp.nrefs,
             resolved |-> lp.resolved, dangling |-> lp.dangling,
             path_sprites |-> [path_sprites EXCEPT
                 ![pt].status = PathStatus(blk.type),
                 ![pt].sprites = StoreSprites(ReadRefs(blk, PATH_COUNT), sprites, @)]]

\* SpriteManager::LoadPATH.  path = &ss->path_sprites[pt] is the store's own
\* object: the sprites are written as they resolve, the status once all did.
LoadPATH(blk, sprites, path_sprites) ==
  IF blk.version # 3 \/ blk.size # 2 + 2 + 2 + 4 * PATH_COUNT
  THEN [ok |-> FALSE, nread |-> 0, resolved |-> {}, dangling |-> FALSE,
        path_sprites |-> path_sprites]
  ELSE
    LET pt == PathType(blk.type % 32768)
        lp == SpriteLoop(ReadRefs(blk, PATH_COUNT), sprites)
    IN IF pt = "PAT_INVALID"
       THEN [ok |-> FALSE, nread |-> 2, resolved |-> {}, dangling |-> FALSE,
             path_sprites |-> path_sprites]
       ELSE IF ~GetSpriteStore(blk.width)
       THEN [ok |-> FALSE, nread |-> 6, resolved |-> {}, dangling |-> FALSE,
             path_sprites |-> path_sprites]
       ELSE [ok |-> lp.ok, nread |-> 6 + 4 * lp.nrefs,
             resolved |-> lp.resolved, dangling |-> lp.dangling,
             path_sprites |-> [path_sprites EXCEPT
                 ![pt].status = IF lp.ok THEN PathStatus(blk.type) ELSE @,
                 ![pt].sprites = StoreSprites(ReadRefs(blk, PATH_COUNT), sprites, @)]]

\* ------------------------------------------------------------------- FENC

\* Fence::Load on a new Fence: the width and the type are stored as read,
\* only the type is tested.
FenceLoad(blk, sprites) ==
  IF blk.version # 2 \/ blk.size # 2 + 2 + 4 * FENCE_COUNT
  THEN [ok |-> FALSE, nread |-> 0, resolved |-> {}, dangling |-> FALSE,
        width |-> 0, type |-> FENCE_TYPE_COUNT]
  ELSE IF blk.type >= FENCE_TYPE_COUNT
  THEN [ok |-> FALSE, nread |-> 4, resolved |-> {}, dangling |-> FALSE,
        width |-> blk.width, type |-> blk.type]
  ELSE LET lp == SpriteLoop(ReadRefs(blk, FENCE_COUNT), sprites)
       IN [ok |-> lp.ok, nread |-> 4 + 4 * lp.nrefs,
           resolved |-> lp.resolved, dangling |-> lp.dangling,
           width |-> blk.width, type |-> blk.type]

\* The asserts of SpriteStorage::AddFence hold for the fence.
AddFenceAsserts(fnc) == fnc.width = StoreSize /\ fnc.type < FENCE_TYPE_COUNT

\* ------------------------------------------------------------------- ANSP

\* DecodePersonType.
DecodePersonType(pt) ==
  CASE pt = 0  -> "PERSON_ANY"
    [] pt = 8  -> "PERSON_GUEST"
    [] pt = 16 -> "PERSON_GUEST"
    [] pt = 17 -> "PERSON_HANDYMAN"
    [] pt = 18 -> "PERSON_MECHANIC"
    [] pt = 19 -> "PERSON_GUARD"
    [] pt = 20 -> "PERSON_ENTERTAINER"
    [] OTHER   -> "PERSON_INVALID"

\* AnimationSprites::Load on a new AnimationSprites: the width is stored as
\* read and never tested.
AnimationSpritesLoad(blk, sprites) ==
  IF blk.version # 3 \/ blk.size < 2 + 1 + 2 + 2
  THEN [ok |-> FALSE, nread |-> 0, resolved |-> {}, dangling |-> FALSE,
        width |-> 0, person_type |-> "PERSON_INVALID", anim_type |-> ANIM_INVALID]
  ELSE IF DecodePersonType(blk.person) = "PERSON_INVALID"
  THEN [ok |-> FALSE, nread |-> 3, resolved |-> {}, dangling |-> FALSE,
        width |-> blk.width, person_type |-> "PERSON_INVALID",
        anim_type |-> ANIM_INVALID]
  ELSE IF blk.at < ANIM_BEGIN \/ blk.at > ANIM_LAST
  THEN [ok |-> FALSE, nread |-> 5, resolved |-> {}, dangling |-> FALSE,
        width |-> blk.width, person_type |-> DecodePersonType(blk.person),
        anim_type |-> ANIM_INVALID]
  ELSE IF blk.size # 2 + 1 + 2 + 2 + blk.frame_count * 4 \/ blk.frame_count = 0
  THEN [ok |-> FALSE, nread |-> 7, resolved |-> {}, dangling |-> FALSE,
        width |-> blk.width, person_type |-> DecodePersonType(blk.person),
        anim_type |-> blk.at]
  ELSE LET lp == SpriteLoop(ReadRefs(blk, blk.frame_count), sprites)
       IN [ok |-> lp.ok, nread |-> 7 + 4 * lp.nrefs,
           resolved |-> lp.resolved, dangling |-> lp.dangling,
           width |-> blk.width, person_type |-> DecodePersonType(blk.person),
           anim_type |-> blk.at]

\* The frame of an animation passes the tests of Animation::Load.
FrameOk(frame) ==
  /\ ~(frame.duration = 0 \/ frame.duration >= 5000)
  /\ ~(frame.dx < -100 \/ frame.dx > 100)
  /\ ~(frame.dy < -100 \/ frame.dy > 100)

\* The bytes Animation::Load reads of a frame before it returns false:
\* the duration, then dx, then dy.
FrameRead(frame) ==
  IF frame.duration = 0 \/ frame.duration >= 5000 THEN 2
  ELSE IF frame.dx < -100 \/ frame.dx > 100 THEN 4
  ELSE 6

\* The frames the loop of Animation::Load reads: all of them, or those up
\* to the first that fails a test.
FramesRead(frames, frame_count) ==
  IF \A i \in 1..frame_count : FrameOk(frames[i]) THEN frame_count
  ELSE CHOOSE i \in 1..frame_count :
         /\ ~FrameOk(frames[i])
         /\ \A j \in 1..(i - 1) : FrameOk(frames[j])

\* An Animation::Load that takes any frame.
AnimationLoad_AnyFrame(blk) ==
  IF blk.version # 4 \/ blk.size < 1 + 2 + 2
  THEN [ok |-> FALSE, nread |-> 0, resolved |-> {}, dangling |-> FALSE,
        person_type |-> "PERSON_INVALID", anim_type |-> ANIM_INVALID]
  ELSE IF DecodePersonType(blk.person) = "PERSON_INVALID"
  THEN [ok |-> FALSE, nread |-> 1, resolved |-> {}, dangling |-> FALSE,
        person_type |-> "PERSON_INVALID", anim_type |-> ANIM_INVALID]
  ELSE IF blk.at < ANIM_BEGIN \/ blk.at > ANIM_LAST
  THEN [ok |-> FALSE, nread |-> 3, resolved |-> {}, dangling |-> FALSE,
        person_type |-> DecodePersonType(blk.person), anim_type |-> ANIM_INVALID]
  ELSE IF blk.size # 1 + 2 + 2 + blk.frame_count * 6 \/ blk.frame_count = 0
  THEN [ok |-> FALSE, nread |-> 5, resolved |-> {}, dangling |-> FALSE,
        person_type |-> DecodePersonType(blk.person), anim_type |-> blk.at]
  ELSE [ok |-> TRUE, nread |-> 5 + 6 * blk.frame_count,
        resolved |-> {}, dangling |-> FALSE,
        person_type |-> DecodePersonType(blk.person), anim_type |-> blk.at]

\* Animation::Load on a new Animation (person type PERSON_INVALID, animation
\* type ANIM_INVALID): what it returns, the bytes it read, and the types of
\* the object.
AnimationLoad(blk) ==
  IF blk.version # 4 \/ blk.size < 1 + 2 + 2
  THEN [ok |-> FALSE, nread |-> 0, resolved |-> {}, dangling |-> FALSE,
        person_type |-> "PERSON_INVALID", anim_type |-> ANIM_INVALID]
  ELSE IF DecodePersonType(blk.person) = "PERSON_INVALID"
  THEN [ok |-> FALSE, nread |-> 1, resolved |-> {}, dangling |-> FALSE,
        person_type |-> "PERSON_INVALID", anim_type |-> ANIM_INVALID]
  ELSE IF blk.at < ANIM_BEGIN \/ blk.at > ANIM_LAST
  THEN [ok |-> FALSE, nread |-> 3, resolved |-> {}, dangling |-> FALSE,
        person_type |-> DecodePersonType(blk.person), anim_type |-> ANIM_INVALID]
  ELSE IF blk.size # 1 + 2 + 2 + blk.frame_count * 6 \/ blk.frame_count = 0
  THEN [ok |-> FALSE, nread |-> 5, resolved |-> {}, dangling |-> FALSE,
        person_type |-> DecodePersonType(blk.person), anim_type |-> blk.at]
  ELSE IF \A i \in 1..blk.frame_count : FrameOk(blk.frames[i])
  THEN [ok |-> TRUE, nread |-> 5 + 6 * blk.frame_count,
        resolved |-> {}, dangling |-> FALSE,
        person_type |-> DecodePersonType(blk.person), anim_type |-> blk.at]
  ELSE [ok |-> FALSE,
        nread |-> 5 + 6 * (FramesRead(blk.frames, blk.frame_count) - 1)
                  + FrameRead(blk.frames[FramesRead(blk.frames, blk.frame_count)]),
        resolved |-> {}, dangling |-> FALSE,
        person_type |-> DecodePersonType(blk.person), anim_type |-> blk.at]

\* The order of the multimap animations: by animation type, and the entries
\* of one animation type in the order of their insertion.
MultimapBefore(a, b) ==
  \/ a.anim_type < b.anim_type
  \/ /\ a.anim_type = b.anim_type
     /\ \/ a.obj[1] < b.obj[1]
        \/ a.obj[1] = b.obj[1] /\ a.obj[2] < b.obj[2]

RECURSIVE MultimapOrder(_)
MultimapOrder(animations_map) ==
  IF animations_map = {} THEN <<>>
  ELSE LET first == CHOOSE a \in animations_map :
                      \A b \in animations_map \ {a} : MultimapBefore(a, b)
       IN <<first>> \o MultimapOrder(animations_map \ {first})

\* animations.find(anim_type): the first entry of the animation type, or
\* the end.
RECURSIVE MultimapFind(_, _, _)
MultimapFind(entries, anim_type, iter) ==
  IF iter > Len(entries) \/ entries[iter].anim_type = anim_type THEN iter
  ELSE MultimapFind(entries, anim_type, iter + 1)

\* animations.erase(iter): the entries without the one at iter.
MultimapErase(entries, iter) ==
  [i \in 1..(Len(entries) - 1) |->
     IF i < iter THEN entries[i] ELSE entries[i + 1]]

\* The loop that stops at the first entry of another person type.
RECURSIVE RemoveLoop_StopAtOther(_, _, _, _)
RemoveLoop_StopAtOther(entries, iter, anim_type, pers_type) ==
  IF iter > Len(entries) THEN entries
  ELSE IF entries[iter].anim_type # anim_type THEN entries
  ELSE IF entries[iter].person_type = pers_type
  THEN RemoveLoop_StopAtOther(MultimapErase(entries, iter), iter, anim_type,
                              pers_type)
  ELSE entries

\* The loop of SpriteStorage::RemoveAnimations from the entry at iter on.
RECURSIVE RemoveLoop(_, _, _, _)
RemoveLoop(entries, iter, anim_type, pers_type) ==
  IF iter > Len(entries) THEN entries
  ELSE IF entries[iter].anim_type # anim_type THEN entries
  ELSE IF entries[iter].person_type = pers_type
  THEN RemoveLoop(MultimapErase(entries, iter), iter, anim_type, pers_type)
  ELSE RemoveLoop(entries, iter + 1, anim_type, pers_type)

\* SpriteStorage::RemoveAnimations: what it leaves in the multimap.
RemoveAnimations(animations_map, anim_type, pers_type) ==
  LET entries == MultimapOrder(animations_map)
      left == RemoveLoop(entries, MultimapFind(entries, anim_type, 1),
                         anim_type, pers_type)
  IN {left[i] : i \in DOMAIN left}

\* The assert of SpriteStorage::AddAnimationSprites holds for the sprites.
AddAnimationSpritesAsserts(an_spr) == an_spr.width = StoreSize

\* ------------------------------------------------------------------- MENU

\* The main menu part of _gui_sprites before any MENU block: the splash
\* duration and the sprites mainmenu_logo, mainmenu_splash, mainmenu_new,
\* mainmenu_load, mainmenu_settings, mainmenu_quit.
MainMenu == [splash_duration |-> 0, sprites |-> [i \in 1..6 |-> Null]]

\* A LoadMENU that does not read the last sprite.
LoadMENU_NoQuit(blk, sprites, mainmenu) ==
  IF blk.version # 1 \/ blk.size # 40 - 12
  THEN [ok |-> FALSE, nread |-> 0, resolved |-> {}, dangling |-> FALSE,
        mainmenu |-> mainmenu]
  ELSE LET lp == SpriteLoop(ReadRefs(blk, 5), sprites)
       IN [ok |-> lp.ok, nread |-> 4 + 4 * lp.nrefs,
           resolved |-> lp.resolved, dangling |-> lp.dangling,
           mainmenu |-> [splash_duration |-> blk.duration,
                         sprites |-> StoreSprites(ReadRefs(blk, 5), sprites,
                                                  mainmenu.sprites)]]

\* GuiSprites::LoadMENU: the duration is stored before any sprite reference
\* is read, each sprite as soon as its reference resolves.
LoadMENU(blk, sprites, mainmenu) ==
  IF blk.version # 1 \/ blk.size # 40 - 12
  THEN [ok |-> FALSE, nread |-> 0, resolved |-> {}, dangling |-> FALSE,
        mainmenu |-> mainmenu]
  ELSE LET lp == SpriteLoop(ReadRefs(blk, 6), sprites)
       IN [ok |-> lp.ok, nread |-> 4 + 4 * lp.nrefs,
           resolved |-> lp.resolved, dangling |-> lp.dangling,
           mainmenu |-> [splash_duration |-> blk.duration,
                         sprites |-> StoreSprites(ReadRefs(blk, 6), sprites,
                                                  mainmenu.sprites)]]

\* ------------------------------------------------------------------- PDEC

\* The sprites of a PathDecoration in the order LoadPDEC reads them: seven
\* groups of one sprite per edge (litterbin, overflow_bin, demolished_bin,
\* lamp_post, demolished_lamp, bench, demolished_bench), then flat_litter,
\* ramp_litter per edge, flat_vomit, ramp_vomit per edge, of 4 types each.
PDEC_SPRITES == 7 * EDGE_COUNT + 2 * (4 + EDGE_COUNT * 4)

\* "while (count < 4 && sprs[count] != nullptr) count++" on the four sprites
\* that follow position base.
TypeCount(sprs, base) ==
  IF \A k \in 1..4 : sprs[base + k] # Null THEN 4
  ELSE (CHOOSE k \in 1..4 : sprs[base + k] = Null
                            /\ \A j \in 1..(k - 1) : sprs[base + j] # Null) - 1

\* PathDecoration::PathDecoration.
PathDecoration ==
  [sprites |-> [i \in 1..PDEC_SPRITES |-> Null],
   flat_litter_count |-> 0, flat_vomit_count |-> 0,
   ramp_litter_count |-> [e \in 1..EDGE_COUNT |-> 0],
   ramp_vomit_count |-> [e \in 1..EDGE_COUNT |-> 0]]

\* SpriteManager::LoadPDEC.  pdec = &ss->path_decoration is the store's own
\* object; the counts are set once every reference resolved.
LoadPDEC(blk, sprites, pdec) ==
  IF blk.version # 1 \/ blk.size # 2 + 7*4*4 + 2*(1+4)*4*4
  THEN [ok |-> FALSE, nread |-> 0, resolved |-> {}, dangling |-> FALSE,
        pdec |-> pdec]
  ELSE IF ~GetSpriteStore(blk.width)
  THEN [ok |-> FALSE, nread |-> 2, resolved |-> {}, dangling |-> FALSE,
        pdec |-> pdec]
  ELSE LET lp   == SpriteLoop(ReadRefs(blk, PDEC_SPRITES), sprites)
           sprs == StoreSprites(ReadRefs(blk, PDEC_SPRITES), sprites, pdec.sprites)
           fl   == 7 * EDGE_COUNT
           fv   == 7 * EDGE_COUNT + 4 + EDGE_COUNT * 4
       IN [ok |-> lp.ok, nread |-> 2 + 4 * lp.nrefs,
           resolved |-> lp.resolved, dangling |-> lp.dangling,
           pdec |-> IF ~lp.ok THEN [pdec EXCEPT !.sprites = sprs]
                    ELSE [sprites |-> sprs,
                          flat_litter_count |-> TypeCount(sprs, fl),
                          flat_vomit_count |-> TypeCount(sprs, fv),
                          ramp_litter_count |->
                            [e \in 1..EDGE_COUNT |-> TypeCount(sprs, fl + 4 * e)],
                          ramp_vomit_count |->
                            [e \in 1..EDGE_COUNT |-> TypeCount(sprs, fv + 4 * e)]]]

\* ------------------------------------------------------------ program state

VARIABLES
  pc,                \* "idle": no Load call is running; "loop": inside the dispatch
                     \* loop; "text": inside TextData::Load; "aborted": an assert failed
  loads,             \* number of Load calls made so far
  filename,          \* Load's argument, rcd_file.filename
  file_hdr,          \* the file header of the file being loaded
  nheaders,          \* block headers ReadBlockHeader has read from this file
  cur,               \* what the last ReadBlockHeader found in the stream
  blk_num,           \* Load's loop counter
  sprites,           \* Load's ImageMap sprites
  texts,             \* Load's TextMap texts
  track_pieces,      \* Load's TrackPiecesMap track_pieces
  result,            \* what the last Load call returned ("nullptr" or a message)
  last,              \* report of the last handler call
  surface,           \* _sprite_manager.store.surface[type].surface[sprnum]
  gui_border,        \* the BorderSpriteData members of _gui_sprites
  blocks,            \* _sprite_manager.blocks
  frame_sets,        \* _sprite_manager.store.frame_sets
  timed_animations,  \* _sprite_manager.store.timed_animations
  text_data,         \* strings, string_count and text_data of the TextData blocks
  path_sprites,      \* _sprite_manager.store.path_sprites[type]
  fence,             \* _sprite_manager.store.fence[type]
  animations,        \* _sprite_manager.store.animations
  manager_animations, \* _sprite_manager.animations
  mainmenu,          \* the main menu members of _gui_sprites
  path_decoration,   \* _sprite_manager.store.path_decoration
  txt,               \* the locals of the running TextData::Load
  nread_run,         \* headers read in the run (bounds the run)
  lookup,            \* one call of LoadSpriteFromFile / LoadTextFromFile
  whole              \* one Load call on a whole file

vars ==
  <<pc, loads, filename, file_hdr, nheaders, cur, blk_num, sprites, texts,
    track_pieces, result, last, surface, gui_border, blocks, frame_sets,
    timed_animations, text_data, path_sprites, fence, animations,
    manager_animations, mainmenu,
    path_decoration, txt, nread_run, lookup, whole>>

\* The registries that outlive a Load call.
registries ==
  <<surface, gui_border, blocks, frame_sets, timed_animations, text_data,
    path_sprites, fence, animations,
    manager_animations, mainmenu, path_decoration>>

\* The variables of the Load process.
loadvars ==
  <<pc, loads, filename, file_hdr, nheaders, cur, blk_num, sprites, texts,
    track_pieces, result, last, surface, gui_border, blocks, frame_sets,
    timed_animations, text_data, path_sprites, fence, animations,
    manager_animations, mainmenu,
    path_decoration, nread_run>>

\* The cross-reference tables of the running Load call.
tables == <<sprites, texts, track_pieces>>

NoLookup == [done |-> FALSE, kind |-> "none"]
NoWhole  == [done |-> FALSE, hdr |-> [magic |-> "", version |-> 0], file |-> <<>>]
NoInput  == [kind |-> "none"]
NoText   == [status |-> "none"]
NoReport == [ok |-> TRUE, nread |-> 0, resolved |-> {}, dangling |-> FALSE]

\* ------------------------------------------------------------ the stream

\* The cross-reference values that occur in payloads.
RefIds == {0, 1, 2}

\* Lists of n references: the first is p[1], the others are p[2].
RefSeqs(n) ==
  {[i \in 1..n |-> IF i = 1 THEN p[1] ELSE p[2]] :
     p \in {<<0, 0>>, <<1, 1>>, <<1, 2>>, <<0, 2>>, <<2, 1>>}}

FileHeaders ==
  {[magic |-> "RCDF", version |-> 2],
   [magic |-> "RCDF", version |-> 1],
   [magic |-> "RCDX", version |-> 2]}

\* Every tag SpriteManager::Load compares the block name with.
RecognizedTags ==
  {"INFO", "8PXL", "32PX", "SURF", "TSEL", "PATH", "PDEC", "TCOR", "FENC",
   "FUND", "PLAT", "SUPP", "BDIR", "GCHK", "GBOR", "GSLI", "GSCL", "GSLP",
   "MENU", "ANIM", "ANSP", "PRSG", "TEXT", "SHOP", "FSET", "TIMA", "SCNY",
   "RIEE", "FGTR", "TRCK", "RCST", "CSPL", "CARS"}

\* Blocks that are skipped: INFO and a tag Load does not know.  avail is the
\* number of payload bytes the stream still holds.
SkipBlocks ==
  {[kind |-> "block", name |-> n, version |-> 1, size |-> 8, avail |-> a] :
     n \in {"INFO", "XTRA"}, a \in {8, 3}}

ImageBlocks ==
  {[kind |-> "block", name |-> n, version |-> 1, size |-> 16, ok |-> o] :
     n \in {"8PXL"}, o \in BOOLEAN}
  \cup {[kind |-> "block", name |-> "32PX", version |-> 1, size |-> 16, ok |-> TRUE]}

TrackBlocks ==
  {[kind |-> "block", name |-> "TRCK", version |-> 1, size |-> 16, ok |-> o] :
     o \in BOOLEAN}

\* A TEXT block is described by its strings, each a name and translations,
\* each translation a language name and a text (all with their NUL).  dn,
\* ds, dl and dt are what the length fields of the name, the string, the
\* language name and the translation are off by (0 in a well-formed block).
Translation(lang, text) == [lang |-> lang, text |-> text, dl |-> 0, dt |-> 0]

String(name, trans) == [name |-> name, trans |-> trans, dn |-> 0, ds |-> 0]

\* The bytes of a translation: its length, the length of the language name,
\* the language name and the text.
EncodeTranslation(t) ==
  <<(3 + Len(t.lang) + Len(t.text) + t.dt) % 256,
    (3 + Len(t.lang) + Len(t.text) + t.dt) \div 256,
    (Len(t.lang) + t.dl) % 256>> \o t.lang \o t.text

\* The sequences of seqs, one after the other.
RECURSIVE Concat(_)
Concat(seqs) ==
  IF seqs = <<>> THEN <<>> ELSE Head(seqs) \o Concat(Tail(seqs))

\* The bytes of a string: its length, the length of the name, the name and
\* the translations.
EncodeString(str) ==
  LET trs == Concat([i \in 1..Len(str.trans) |-> EncodeTranslation(str.trans[i])])
  IN <<(3 + Len(str.name) + Len(trs) + str.ds) % 256,
       (3 + Len(str.name) + Len(trs) + str.ds) \div 256,
       (Len(str.name) + str.dn) % 256>> \o str.name \o trs

\* The payload of a TEXT block with the strings strs.
EncodeText(strs) == Concat([i \in 1..Len(strs) |-> EncodeString(strs[i])])

\* A TEXT block of the version with the strings strs, the length of its
\* header off by dsize.  The stream goes on after the block (with a 0).
TextBlock(version, strs, dsize) ==
  [kind |-> "block", name |-> "TEXT", version |-> version,
   size |-> Len(EncodeText(strs)) + dsize,
   payload |-> EncodeText(strs) \o <<0>>, strs |-> strs, dsize |-> dsize]

\* Names, language names and texts, as bytes with their NUL.
NAME == <<78, 65, 77, 69, 0>>
en_GB == <<101, 110, 95, 71, 66, 0>>
nl_NL == <<110, 108, 95, 78, 76, 0>>
xx_XX == <<120, 120, 95, 88, 88, 0>>
Hello == <<72, 101, 108, 108, 111, 0>>

\* The string NAME with one translation.
OneString(lang, text) == <<String(NAME, <<Translation(lang, text)>>)>>

TextBlocks ==
  {TextBlock(2, OneString(en_GB, Hello), 0),
   TextBlock(2, OneString(en_GB, <<>>), 0),
   TextBlock(1, OneString(en_GB, Hello), 0)}

SurfBlock(v, s, g, w, r) ==
  [kind |-> "block", name |-> "SURF", version |-> v, size |-> s, gt |-> g,
   width |-> w, refs |-> r]

NoRefs(n) == [i \in 1..n |-> 0]

SurfBlocks ==
  {SurfBlock(6, 98, 16, 64, r) : r \in RefSeqs(NUM_SLOPE_SPRITES)}
  \cup {SurfBlock(6, 98, 20, 64, [i \in 1..NUM_SLOPE_SPRITES |-> 1]),
        SurfBlock(5, 98, 16, 64, NoRefs(NUM_SLOPE_SPRITES)),
        SurfBlock(6, 94, 16, 64, NoRefs(NUM_SLOPE_SPRITES - 1)),
        SurfBlock(6, 98, 99, 64, NoRefs(NUM_SLOPE_SPRITES)),
        SurfBlock(6, 98, 16, 32, NoRefs(NUM_SLOPE_SPRITES))}

GborBlock(v, s, t, r) ==
  [kind |-> "block", name |-> "GBOR", version |-> v, size |-> s, tp |-> t,
   metrics |-> [i \in 1..8 |-> i], refs |-> r]

GborBlocks ==
  {GborBlock(2, 10 + 4 * WBS_COUNT, 3, r) : r \in RefSeqs(WBS_COUNT)}
  \cup {GborBlock(2, 10 + 4 * WBS_COUNT, 2, [i \in 1..WBS_COUNT |-> 1]),
        GborBlock(1, 10 + 4 * WBS_COUNT, 3, NoRefs(WBS_COUNT)),
        GborBlock(2, 10 + 4 * WBS_COUNT + 4, 3, NoRefs(WBS_COUNT + 1)),
        GborBlock(2, 10 + 4 * WBS_COUNT, 10, NoRefs(WBS_COUNT))}

FsetBlock(v, s, w, x, y, r) ==
  [kind |-> "block", name |-> "FSET", version |-> v, size |-> s, width |-> w,
   width_x |-> x, width_y |-> y, refs |-> r]

FsetBlocks ==
  {FsetBlock(1, 20, 64, 1, 1, r) : r \in RefSeqs(4)}
  \cup {FsetBlock(1, 4, 64, 0, 1, <<>>),
        FsetBlock(1, 20, 32, 1, 1, NoRefs(4)),
        FsetBlock(2, 20, 64, 1, 1, NoRefs(4)),
        FsetBlock(1, 3, 64, 1, 1, NoRefs(4)),
        FsetBlock(1, 24, 64, 1, 1, NoRefs(4))}

TimaBlock(v, s, n, r) ==
  [kind |-> "block", name |-> "TIMA", version |-> v, size |-> s, frames |-> n,
   durations |-> [i \in 1..Len(r) |-> 100], refs |-> r]

TimaBlocks ==
  {TimaBlock(1, 12, 1, <<a>>) : a \in RefIds}
  \cup {TimaBlock(1, 4, 0, <<>>),
        TimaBlock(2, 12, 1, <<0>>),
        TimaBlock(1, 3, 1, <<0>>),
        TimaBlock(1, 16, 1, <<0>>)}

Blocks ==
  SkipBlocks \cup ImageBlocks \cup TrackBlocks \cup TextBlocks \cup SurfBlocks
  \cup GborBlocks \cup FsetBlocks \cup TimaBlocks

\* Where the stream ends: at a header boundary ("eof"), or after fewer bytes
\* than a block header has ("short").
StreamEnds == {[kind |-> "eof"], [kind |-> "short"]}

StreamInputs == Blocks \cup StreamEnds

\* --------------------------------------------------- SpriteManager::Load

\* The state a loop iteration works on.
Env ==
  [pc |-> pc, loads |-> loads, filename |-> filename, nheaders |-> nheaders,
   cur |-> cur, blk_num |-> blk_num, sprites |-> sprites, texts |-> texts,
   track_pieces |-> track_pieces, result |-> result, last |-> last,
   surface |-> surface, gui_border |-> gui_border, blocks |-> blocks,
   frame_sets |-> frame_sets, timed_animations |-> timed_animations,
   text_data |-> text_data, path_sprites |-> path_sprites, fence |-> fence,
   animations |-> animations, manager_animations |-> manager_animations,
   mainmenu |-> mainmenu,
   path_decoration |-> path_decoration]

\* A loop whose INFO branch leaves without the increment.
NextBlkNum_NoInfo(name, n) == IF name = "INFO" THEN n ELSE n + 1

\* "for (uint blk_num = 1;; blk_num++)": the counter after the iteration
\* that handled a block with this name (every continue runs the increment).
NextBlkNum(name, n) == n + 1

\* A loop that gives up at a tag it does not know.
SkipUnknown_Fatal(base, blk) ==
  [base EXCEPT !.ok = FALSE, !.msg = "Error skipping unknown block.",
               !.nread = 0]

\* The end of the loop body, reached when no tag matched: the block is
\* unknown, its payload is skipped.  base is the outcome that changes nothing.
SkipUnknown(base, blk) ==
  IF SkipBytes(blk, blk.size) THEN base
  ELSE [base EXCEPT !.ok = FALSE, !.msg = "Error skipping unknown block.",
                    !.nread = blk.avail]

\* The outcome of a handler that succeeds and changes nothing.
NoChange(e, blk) ==
  [ok |-> TRUE, msg |-> "", nread |-> blk.size, resolved |-> {},
   dangling |-> FALSE, sprites |-> e.sprites, texts |-> e.texts,
   track_pieces |-> e.track_pieces, surface |-> e.surface,
   gui_border |-> e.gui_border, blocks |-> e.blocks,
   frame_sets |-> e.frame_sets,
   timed_animations |-> e.timed_animations,
   text_data |-> e.text_data, path_sprites |-> e.path_sprites,
   fence |-> e.fence, animations |-> e.animations,
   manager_animations |-> e.manager_animations,
   mainmenu |-> e.mainmenu,
   path_decoration |-> e.path_decoration, abort |-> FALSE]

\* The TEXT branch of the loop: h is what TextData::Load returned on the
\* new TextData.  An assert that fails inside Load ends the program.
TextBranch(e, blk, h) ==
  LET me == Obj(e.loads, e.nheaders)
  IN IF h.abort
     THEN [NoChange(e, blk) EXCEPT !.ok = FALSE, !.abort = TRUE, !.nread = h.nread]
     ELSE IF ~h.ok
     THEN [NoChange(e, blk) EXCEPT !.ok = FALSE, !.nread = h.nread,
                                   !.msg = "Text block failed to load."]
     ELSE [NoChange(e, blk) EXCEPT
             !.nread = h.nread,
             !.texts = MapInsert(e.texts, e.blk_num, me),
             !.blocks = Append(e.blocks, me),
             !.text_data = MapAssign(e.text_data, me, h.obj)]

\* The FENC branch of the loop: h is what Fence::Load returned on the new
\* Fence.  AddFence asserts the width and the type of the fence.
FenceBranch(e, blk, h) ==
  LET me == Obj(e.loads, e.nheaders)
  IN IF ~h.ok
     THEN [NoChange(e, blk) EXCEPT
             !.ok = FALSE, !.msg = "Fence block loading failed.",
             !.nread = h.nread, !.resolved = h.resolved,
             !.dangling = h.dangling]
     ELSE IF ~AddFenceAsserts(h)
     THEN [NoChange(e, blk) EXCEPT
             !.abort = TRUE, !.nread = h.nread, !.resolved = h.resolved]
     ELSE [NoChange(e, blk) EXCEPT
             !.nread = h.nread, !.resolved = h.resolved,
             !.fence = [e.fence EXCEPT ![h.type] = me],
             !.blocks = Append(e.blocks, me)]

\* The ANSP branch of the loop: h is what AnimationSprites::Load returned
\* on the new AnimationSprites (its person and animation type are valid
\* when it succeeds).  AddAnimationSprites asserts the width.
AnimationSpritesBranch(e, blk, h) ==
  LET me == Obj(e.loads, e.nheaders)
  IN IF ~h.ok
     THEN [NoChange(e, blk) EXCEPT
             !.ok = FALSE, !.msg = "Animation sprites failed to load.",
             !.nread = h.nread, !.resolved = h.resolved,
             !.dangling = h.dangling]
     ELSE IF h.person_type = "PERSON_INVALID" \/ h.anim_type = ANIM_INVALID
     THEN [NoChange(e, blk) EXCEPT
             !.ok = FALSE, !.msg = "Unknown animation.", !.nread = h.nread,
             !.resolved = h.resolved]
     ELSE IF ~AddAnimationSpritesAsserts(h)
     THEN [NoChange(e, blk) EXCEPT
             !.abort = TRUE, !.nread = h.nread, !.resolved = h.resolved]
     ELSE [NoChange(e, blk) EXCEPT
             !.nread = h.nread, !.resolved = h.resolved,
             !.animations = e.animations
                             \cup {[anim_type |-> h.anim_type,
                                    person_type |-> h.person_type,
                                    obj |-> me]},
             !.blocks = Append(e.blocks, me)]

\* The ANIM branch of the loop: h is what Animation::Load returned on the
\* new Animation.  The animation goes to the animations of the manager, the
\* sprites of its animation and person type leave the store.
AnimationBranch(e, blk, h) ==
  LET me == Obj(e.loads, e.nheaders)
  IN IF ~h.ok
     THEN [NoChange(e, blk) EXCEPT
             !.ok = FALSE, !.msg = "Animation failed to load.",
             !.nread = h.nread]
     ELSE IF h.person_type = "PERSON_INVALID" \/ h.anim_type = ANIM_INVALID
     THEN [NoChange(e, blk) EXCEPT
             !.ok = FALSE, !.msg = "Unknown animation.", !.nread = h.nread]
     ELSE [NoChange(e, blk) EXCEPT
             !.nread = h.nread,
             !.manager_animations =
                e.manager_animations
                  \cup {[anim_type |-> h.anim_type,
                         person_type |-> h.person_type, obj |-> me]},
             !.animations =
                RemoveAnimations(e.animations, h.anim_type, h.person_type),
             !.blocks = Append(e.blocks, me)]

\* The TIMA branch of the loop: h is what TimedAnimation::Load returned on
\* the new TimedAnimation.
TimedAnimationBranch(e, blk, h) ==
  IF h.ok
  THEN [NoChange(e, blk) EXCEPT
          !.nread = h.nread, !.resolved = h.resolved, !.dangling = h.dangling,
          !.timed_animations =
             MapAssign(e.timed_animations, <<e.filename, e.blk_num>>,
                       [obj |-> Obj(e.loads, e.nheaders), data |-> h.anim])]
  ELSE [NoChange(e, blk) EXCEPT
          !.ok = FALSE, !.msg = "Timed animation failed to load.",
          !.nread = h.nread]

\* The outcome of a handler that works on the store or on _gui_sprites:
\* its report and the message Load returns when it fails.
Report(e, blk, h, msg) ==
  [NoChange(e, blk) EXCEPT !.ok = h.ok, !.msg = msg, !.nread = h.nread,
                           !.resolved = h.resolved, !.dangling = h.dangling]

\* The body of the dispatch loop for one block: the handler of the tag and
\* what Load does with its result.  e is the state with the header read.
\* ok = FALSE stands for the return of the message msg.
Dispatch(e, blk) ==
  LET me   == Obj(e.loads, e.nheaders)
      base == NoChange(e, blk)
  IN
  CASE blk.name = "INFO" ->
         IF SkipBytes(blk, blk.size) THEN base
         ELSE [base EXCEPT !.ok = FALSE, !.msg = "Invalid INFO block.",
                           !.nread = blk.avail]
    [] blk.name \in {"8PXL", "32PX"} ->
         IF LoadImage(blk)
         THEN [base EXCEPT !.sprites = MapInsert(e.sprites, e.blk_num, me)]
         ELSE [base EXCEPT !.ok = FALSE, !.msg = "Image data loading failed",
                           !.nread = -1]
    [] blk.name = "SURF" ->
         LET h == LoadSURF(blk, e.sprites, e.surface)
         IN [base EXCEPT !.ok = h.ok, !.msg = "Surface block loading failed.",
                         !.nread = h.nread, !.resolved = h.resolved,
                         !.dangling = h.dangling, !.surface = h.surface]
    [] blk.name = "GBOR" ->
         LET h == LoadGBOR(blk, e.sprites, e.gui_border)
         IN [base EXCEPT !.ok = h.ok, !.msg = "Loading Border GUI sprites failed.",
                         !.nread = h.nread, !.resolved = h.resolved,
                         !.dangling = h.dangling, !.gui_border = h.border]
    [] blk.name = "TEXT" -> TextBranch(e, blk, TextDataLoad(blk))
    [] blk.name = "PATH" ->
         LET h == LoadPATH(blk, e.sprites, e.path_sprites)
         IN [Report(e, blk, h, "Path-sprites block loading failed.")
               EXCEPT !.path_sprites = h.path_sprites]
    [] blk.name = "PDEC" ->
         LET h == LoadPDEC(blk, e.sprites, e.path_decoration)
         IN [Report(e, blk, h, "Path decoration block loading failed.")
               EXCEPT !.path_decoration = h.pdec]
    [] blk.name = "MENU" ->
         LET h == LoadMENU(blk, e.sprites, e.mainmenu)
         IN [Report(e, blk, h, "Loading main menu sprites failed.")
               EXCEPT !.mainmenu = h.mainmenu]
    [] blk.name = "FENC" -> FenceBranch(e, blk, FenceLoad(blk, e.sprites))
    [] blk.name = "ANIM" -> AnimationBranch(e, blk, AnimationLoad(blk))
    [] blk.name = "ANSP" ->
         AnimationSpritesBranch(e, blk, AnimationSpritesLoad(blk, e.sprites))
    [] blk.name = "FSET" ->
         LET h == FrameSetLoad(blk, e.sprites)
         IN IF h.ok
            THEN [base EXCEPT !.nread = h.nread, !.resolved = h.resolved,
                              !.frame_sets =
                                 MapAssign(e.frame_sets, <<e.filename, e.blk_num>>,
                                           [obj |-> me, data |-> h.fset])]
            ELSE [base EXCEPT !.ok = FALSE, !.msg = "Frame set failed to load.",
                              !.nread = h.nread, !.resolved = h.resolved,
                              !.dangling = h.dangling]
    [] blk.name = "TIMA" ->
         TimedAnimationBranch(e, blk,
                              TimedAnimationLoad(blk, e.filename, e.frame_sets))
    [] blk.name = "TRCK" ->
         IF TrackPieceLoad(blk)
         THEN [base EXCEPT !.track_pieces = MapInsert(e.track_pieces, e.blk_num, me)]
         ELSE [base EXCEPT !.ok = FALSE, !.msg = "Track piece failed to load.",
                           !.nread = -1]
    [] blk.name \notin RecognizedTags -> SkipUnknown(base, blk)

\* Load returns: its locals (the reader, the three tables) are gone.
Return(e, msg) ==
  [e EXCEPT !.pc = "idle", !.result = msg, !.blk_num = 0,
            !.sprites = EmptyMap, !.texts = EmptyMap, !.track_pieces = EmptyMap]

\* What Load does with the outcome h of the handler of the block named
\* name: the next iteration, or the return of the handler's message.
Finish(e1, h, name) ==
  LET e2 == [e1 EXCEPT
               !.last = [ok |-> h.ok, nread |-> h.nread,
                         resolved |-> h.resolved, dangling |-> h.dangling],
               !.sprites = h.sprites, !.texts = h.texts,
               !.track_pieces = h.track_pieces, !.surface = h.surface,
               !.gui_border = h.gui_border, !.blocks = h.blocks,
               !.frame_sets = h.frame_sets,
               !.timed_animations = h.timed_animations,
               !.text_data = h.text_data, !.path_sprites = h.path_sprites,
               !.fence = h.fence, !.animations = h.animations,
               !.manager_animations = h.manager_animations,
               !.mainmenu = h.mainmenu,
               !.path_decoration = h.path_decoration]
  IN IF h.abort THEN [e2 EXCEPT !.pc = "aborted", !.result = "assertion failed"]
     ELSE IF h.ok
     THEN [e2 EXCEPT !.pc = "loop", !.blk_num = NextBlkNum(name, @)]
     ELSE Return(e2, h.msg)

\* The loop body once the header of the block inp is read.
Handle(e1, inp) == Finish(e1, Dispatch(e1, inp), inp.name)

\* One iteration of the loop of Load, inp being what the stream holds next.
Step(e, inp) ==
  IF ~ReadBlockHeader(inp)
  THEN Return([e EXCEPT !.cur = inp, !.last = NoReport], "nullptr")   \* End reached.
  ELSE Handle([e EXCEPT !.cur = inp, !.nheaders = @ + 1], inp)

\* The state becomes e.
Becomes(e) ==
  /\ pc' = e.pc
  /\ loads' = e.loads
  /\ filename' = e.filename
  /\ nheaders' = e.nheaders
  /\ cur' = e.cur
  /\ blk_num' = e.blk_num
  /\ sprites' = e.sprites
  /\ texts' = e.texts
  /\ track_pieces' = e.track_pieces
  /\ result' = e.result
  /\ last' = e.last
  /\ surface' = e.surface
  /\ gui_border' = e.gui_border
  /\ blocks' = e.blocks
  /\ frame_sets' = e.frame_sets
  /\ timed_animations' = e.timed_animations
  /\ text_data' = e.text_data
  /\ path_sprites' = e.path_sprites
  /\ fence' = e.fence
  /\ animations' = e.animations
  /\ manager_animations' = e.manager_animations
  /\ mainmenu' = e.mainmenu
  /\ path_decoration' = e.path_decoration

\* Load without the test of the file header.
Open_NoCheck(e, f, hdr) ==
  [e EXCEPT !.loads = @ + 1, !.filename = f, !.nheaders = 0,
            !.cur = NoInput, !.last = NoReport,
            !.pc = "loop", !.result = "running", !.blk_num = 1,
            !.sprites = EmptyMap, !.texts = EmptyMap,
            !.track_pieces = EmptyMap]

\* Load up to its loop: the reader is opened on the file and the file header
\* is checked.
Open(e, f, hdr) ==
  LET e1 == [e EXCEPT !.loads = @ + 1, !.filename = f, !.nheaders = 0,
                      !.cur = NoInput, !.last = NoReport]
  IN IF ~CheckFileHeader(hdr, "RCDF", 2)
     THEN Return(e1, "Bad header")
     ELSE [e1 EXCEPT !.pc = "loop", !.result = "running", !.blk_num = 1,
                     !.sprites = EmptyMap, !.texts = EmptyMap,
                     !.track_pieces = EmptyMap]

\* A call of Load(f) on a file that starts with hdr.
LoadStart ==
  /\ pc = "idle"
  /\ nread_run < MaxHeaders
  /\ \E f \in FileNames, hdr \in FileHeaders :
       /\ file_hdr' = hdr
       /\ nread_run' = nread_run + 1
       /\ UNCHANGED <<lookup, whole, txt>>
       /\ Becomes(Open(Env, f, hdr))

\* One iteration of the dispatch loop on a stream that holds one of inputs.
LoadFrom(inputs) ==
  /\ pc = "loop"
  /\ \E inp \in inputs :
       /\ inp.kind = "block" => nread_run < MaxHeaders
       /\ nread_run' = IF inp.kind = "block" THEN nread_run + 1 ELSE nread_run
       /\ file_hdr' = file_hdr
       /\ UNCHANGED <<lookup, whole, txt>>
       /\ Becomes(Step(Env, inp))

\* One iteration of the dispatch loop.
LoadBlock == LoadFrom(StreamInputs)

\* The state after the construction of _sprite_manager and _gui_sprites.
InitEnv ==
  [pc |-> "idle", loads |-> 0, filename |-> "", nheaders |-> 0,
   cur |-> NoInput, blk_num |-> 0, sprites |-> EmptyMap, texts |-> EmptyMap,
   track_pieces |-> EmptyMap, result |-> "none", last |-> NoReport,
   surface |-> [t \in GroundTypes |-> SurfaceData],
   gui_border |-> [w \in BorderWidgets |-> BorderSpriteData],
   blocks |-> <<>>, frame_sets |-> EmptyMap, timed_animations |-> EmptyMap,
   text_data |-> EmptyMap, path_sprites |-> [t \in PathTypes |-> Path],
   fence |-> [t \in 0..(FENCE_TYPE_COUNT - 1) |-> Null], animations |-> {},
   manager_animations |-> {},
   mainmenu |-> MainMenu, path_decoration |-> PathDecoration]

\* The program is in state e.
Is(e) ==
  /\ pc = e.pc
  /\ loads = e.loads
  /\ filename = e.filename
  /\ nheaders = e.nheaders
  /\ cur = e.cur
  /\ blk_num = e.blk_num
  /\ sprites = e.sprites
  /\ texts = e.texts
  /\ track_pieces = e.track_pieces
  /\ result = e.result
  /\ last = e.last
  /\ surface = e.surface
  /\ gui_border = e.gui_border
  /\ blocks = e.blocks
  /\ frame_sets = e.frame_sets
  /\ timed_animations = e.timed_animations
  /\ text_data = e.text_data
  /\ path_sprites = e.path_sprites
  /\ fence = e.fence
  /\ animations = e.animations
  /\ manager_animations = e.manager_animations
  /\ mainmenu = e.mainmenu
  /\ path_decoration = e.path_decoration

Init ==
  /\ Is(InitEnv)
  /\ file_hdr = [magic |-> "", version |-> 0]
  /\ nread_run = 0
  /\ lookup = NoLookup
  /\ whole = NoWhole
  /\ txt = NoText

Next == LoadStart \/ LoadBlock

Spec == Init /\ [][Next]_vars

\* ------------------------------------------------- blocks of the store

\* An image block: the sprite other blocks refer to.
ImageBlock ==
  [kind |-> "block", name |-> "8PXL", version |-> 1, size |-> 16, ok |-> TRUE]

\* References that are all 1: they resolve when block 1 is an image.
OneRefs(n) == [i \in 1..n |-> 1]

\* The ground type bytes tried: the eight LoadSURF knows and others.
SurfCodes == {16, 17, 18, 19, 20, 32, 48, 49, 0, 21, 99, 255}

SurfInputs ==
  {ImageBlock, [kind |-> "eof"]}
  \cup {SurfBlock(6, 98, g, 64, OneRefs(NUM_SLOPE_SPRITES)) : g \in SurfCodes}
  \cup {SurfBlock(6, 98, 99, 64, NoRefs(NUM_SLOPE_SPRITES))}

\* Blocks of the surface sprites.
LoadSurf == LoadFrom(SurfInputs)

SpecSurf == Init /\ [][LoadStart \/ LoadSurf]_vars

\* GBOR blocks of every widget type and of types LoadGBOR does not know,
\* with references that resolve, and blocks whose loop fails midway.
GborInputs ==
  {ImageBlock, [kind |-> "eof"]}
  \cup {GborBlock(2, 10 + 4 * WBS_COUNT, t, OneRefs(WBS_COUNT)) : t \in 0..10}
  \cup {GborBlock(2, 10 + 4 * WBS_COUNT, t, r) :
          t \in {2, 3}, r \in {q \in RefSeqs(WBS_COUNT) : q[1] = 1 /\ q[WBS_COUNT] = 2}}
  \cup {GborBlock(1, 10 + 4 * WBS_COUNT, 8, OneRefs(WBS_COUNT))}

\* Blocks of the widget borders.
LoadGbor == LoadFrom(GborInputs)

SpecGbor == Init /\ [][LoadStart \/ LoadGbor]_vars

PathBlock(v, s, t, w, r) ==
  [kind |-> "block", name |-> "PATH", version |-> v, size |-> s, type |-> t,
   width |-> w, refs |-> r]

\* The type words tried: the four LoadPATH knows, plain and with the queue
\* bit, and others.
PathCodes == {4, 8, 12, 16, 32772, 32784, 0, 5, 32768, 65535}

PathInputs ==
  {ImageBlock, [kind |-> "eof"]}
  \cup {PathBlock(3, 6 + 4 * PATH_COUNT, t, 64, OneRefs(PATH_COUNT)) : t \in PathCodes}
  \cup {PathBlock(3, 6 + 4 * PATH_COUNT, 32776, 64, NoRefs(PATH_COUNT)),
        PathBlock(3, 6 + 4 * PATH_COUNT, 4, 32, NoRefs(PATH_COUNT)),
        PathBlock(2, 6 + 4 * PATH_COUNT, 4, 64, NoRefs(PATH_COUNT))}

\* Blocks of the path sprites.
LoadPath == LoadFrom(PathInputs)

SpecPath == Init /\ [][LoadStart \/ LoadPath]_vars

FenceBlock(v, s, w, t, r) ==
  [kind |-> "block", name |-> "FENC", version |-> v, size |-> s, width |-> w,
   type |-> t, refs |-> r]

AnspBlock(v, s, w, p, a, n, r) ==
  [kind |-> "block", name |-> "ANSP", version |-> v, size |-> s, width |-> w,
   person |-> p, at |-> a, frame_count |-> n, refs |-> r]

FenceInputs ==
  {ImageBlock, [kind |-> "eof"]}
  \cup {FenceBlock(2, 4 + 4 * FENCE_COUNT, w, t, OneRefs(FENCE_COUNT)) :
          w \in {64, 32}, t \in {0, FENCE_TYPE_COUNT - 1, FENCE_TYPE_COUNT}}
  \cup {FenceBlock(2, 4 + 4 * FENCE_COUNT, 64, 0, NoRefs(FENCE_COUNT)),
        FenceBlock(1, 4 + 4 * FENCE_COUNT, 64, 0, NoRefs(FENCE_COUNT))}
  \cup {AnspBlock(3, 7 + 4, w, 8, ANIM_BEGIN, 1, OneRefs(1)) : w \in {64, 32, 0}}
  \cup {AnspBlock(3, 7 + 8, 64, 17, ANIM_LAST, 2, NoRefs(2)),
        AnspBlock(3, 7 + 4, 64, 1, ANIM_BEGIN, 1, NoRefs(1)),
        AnspBlock(3, 7 + 4, 64, 8, ANIM_LAST + 1, 1, NoRefs(1)),
        AnspBlock(3, 7, 64, 8, ANIM_BEGIN, 0, <<>>)}

\* Blocks of the fences and of the animation sprites.
LoadFence == LoadFrom(FenceInputs)

SpecFence == Init /\ [][LoadStart \/ LoadFence]_vars

\* An ANIM block: the person type byte, the animation type, the frame count
\* and the frames, each a duration (uint16) and dx, dy (int16).
AnimBlock(v, s, p, a, n, f) ==
  [kind |-> "block", name |-> "ANIM", version |-> v, size |-> s, person |-> p,
   at |-> a, frame_count |-> n, frames |-> f]

Frame(duration, dx, dy) == [duration |-> duration, dx |-> dx, dy |-> dy]

\* Person type bytes: those DecodePersonType knows and others.
PersonCodes == {0, 8, 16, 17, 18, 19, 20}

OtherPersonCodes == {1, 7, 9, 21, 255}

\* Frames at and past the limits of Animation::Load.
FrameInputs ==
  {Frame(d, 0, 0) : d \in {0, 1, 4999, 5000}}
  \cup {Frame(1, x, 0) : x \in {-101, -100, 100, 101}}
  \cup {Frame(1, 0, y) : y \in {-101, -100, 100, 101}}

\* ANIM and ANSP blocks, and an image for the sprites of an ANSP block.
AnimInputs ==
  {ImageBlock, [kind |-> "eof"]}
  \cup {AnimBlock(4, 5 + 6, p, ANIM_BEGIN, 1, <<Frame(1, 0, 0)>>) :
          p \in {8, 16, 17} \cup OtherPersonCodes}
  \cup {AnimBlock(4, 5 + 6, 8, a, 1, <<Frame(1, 0, 0)>>) :
          a \in {ANIM_BEGIN - 1, ANIM_LAST, ANIM_LAST + 1, ANIM_INVALID}}
  \cup {AnimBlock(4, 5 + 6, 0, ANIM_BEGIN, 1, <<f>>) : f \in FrameInputs}
  \cup {AnimBlock(4, 5 + 12, 20, ANIM_LAST, 2, <<Frame(4999, 100, -100), f>>) :
          f \in {Frame(1, 0, 0), Frame(1, 0, 101)}}
  \cup {AnimBlock(4, 5, 8, ANIM_BEGIN, 0, <<>>),
        AnimBlock(4, 5 + 7, 8, ANIM_BEGIN, 1, <<Frame(1, 0, 0)>>),
        AnimBlock(4, 5 + 6, 8, ANIM_BEGIN, 2, <<Frame(1, 0, 0), Frame(1, 0, 0)>>),
        AnimBlock(4, 4, 8, ANIM_BEGIN, 1, <<Frame(1, 0, 0)>>),
        AnimBlock(3, 5 + 6, 8, ANIM_BEGIN, 1, <<Frame(1, 0, 0)>>)}
  \cup {AnspBlock(3, 7 + 4, 64, p, ANIM_BEGIN, 1, OneRefs(1)) :
          p \in {8, 16, 19, 1, 21}}
  \cup {AnspBlock(3, 7 + 4, 64, 16, a, 1, OneRefs(1)) :
          a \in {ANIM_BEGIN - 1, ANIM_LAST, ANIM_LAST + 1}}
  \cup {AnspBlock(3, 7 + 4, 64, p, ANIM_BEGIN, 1, NoRefs(1)) : p \in {8, 19}}
  \cup {AnspBlock(3, 7, 64, 8, ANIM_BEGIN, 0, <<>>),
        AnspBlock(3, 7 + 5, 64, 8, ANIM_BEGIN, 1, OneRefs(1)),
        AnspBlock(3, 7 + 4, 64, 8, ANIM_BEGIN, 2, OneRefs(2)),
        AnspBlock(2, 7 + 4, 64, 8, ANIM_BEGIN, 1, OneRefs(1))}

\* Blocks of the animations and of their sprites.
LoadAnim == LoadFrom(AnimInputs)

SpecAnim == Init /\ [][LoadStart \/ LoadAnim]_vars

MenuBlock(v, s, d, r) ==
  [kind |-> "block", name |-> "MENU", version |-> v, size |-> s,
   duration |-> d, refs |-> r]

PdecBlock(v, s, w, r) ==
  [kind |-> "block", name |-> "PDEC", version |-> v, size |-> s, width |-> w,
   refs |-> r]

\* One block or more of every handler of src/ whose reads are counted, with
\* the length the handler asks for and with another.
LayoutInputs ==
  {ImageBlock, [kind |-> "eof"],
   MenuBlock(1, 28, 500, OneRefs(6)), MenuBlock(1, 28, 500, NoRefs(6)),
   MenuBlock(1, 24, 500, NoRefs(5)), MenuBlock(1, 32, 500, NoRefs(7)),
   PdecBlock(1, 274, 64, OneRefs(PDEC_SPRITES)),
   PdecBlock(1, 274, 64, NoRefs(PDEC_SPRITES)),
   PdecBlock(1, 270, 64, NoRefs(PDEC_SPRITES - 1)),
   SurfBlock(6, 98, 16, 64, OneRefs(NUM_SLOPE_SPRITES)),
   GborBlock(2, 10 + 4 * WBS_COUNT, 3, OneRefs(WBS_COUNT)),
   PathBlock(3, 6 + 4 * PATH_COUNT, 4, 64, OneRefs(PATH_COUNT)),
   FenceBlock(2, 4 + 4 * FENCE_COUNT, 64, 0, OneRefs(FENCE_COUNT)),
   AnspBlock(3, 7 + 8, 64, 8, ANIM_BEGIN, 2, OneRefs(2)),
   AnspBlock(3, 7 + 12, 64, 8, ANIM_BEGIN, 2, OneRefs(3)),
   FsetBlock(1, 4 + 16, 64, 1, 1, OneRefs(4)),
   TimaBlock(1, 4 + 8, 1, <<2>>)}
  \cup TextBlocks

\* Blocks of every handler.
LoadLayout == LoadFrom(LayoutInputs)

SpecLayout == Init /\ [][LoadStart \/ LoadLayout]_vars

\* ---------------------------------------------- TextData::Load, stepwise

Hallo == <<72, 97, 108, 108, 111, 0>>
Hi == <<72, 105, 0>>
LetterA == <<65, 0>>
\* U+00E9, U+20AC and U+1F600: characters of two, three and four bytes.
EAcute == <<195, 169, 0>>
Euro == <<226, 130, 172, 0>>
Grin == <<240, 159, 152, 128, 0>>

\* A text of n bytes, the NUL included.
LongText(n) == [i \in 1..n |-> IF i = n THEN 0 ELSE 97]

\* One string in the two languages of the program.
TwoLanguages ==
  <<String(NAME, <<Translation(en_GB, Hello), Translation(nl_NL, Hallo)>>)>>

\* One string with a translation in a language the program does not have,
\* followed by one in a language it has.
WithUnknown(text) ==
  <<String(NAME, <<Translation(xx_XX, text), Translation(en_GB, Hello)>>)>>

TwoStrings ==
  <<String(NAME, <<Translation(en_GB, Hello)>>),
    String(LetterA, <<Translation(nl_NL, EAcute)>>)>>

\* One string with two translations in the same language.
Twice ==
  <<String(NAME, <<Translation(en_GB, Hello), Translation(en_GB, Hi)>>)>>

\* Well-formed strings.
WellFormed ==
  {OneString(en_GB, Hello), TwoLanguages, TwoStrings, Twice,
   OneString(xx_XX, Hello), WithUnknown(Hello), WithUnknown(Hi),
   WithUnknown(LongText(LANG_BUFFER_SIZE)),
   WithUnknown(LongText(LANG_BUFFER_SIZE + 1)),
   OneString(en_GB, <<0>>), OneString(nl_NL, Euro), OneString(en_GB, Grin)}

\* The strings strs with one length field off by one.
OffByOne(strs) ==
  {[strs EXCEPT ![i].dn = d] : i \in DOMAIN strs, d \in {-1, 1}}
  \cup {[strs EXCEPT ![i].ds = d] : i \in DOMAIN strs, d \in {-1, 1}}
  \cup UNION {{[strs EXCEPT ![i].trans[j].dl = d] :
                 j \in DOMAIN strs[i].trans, d \in {-1, 1}} : i \in DOMAIN strs}
  \cup UNION {{[strs EXCEPT ![i].trans[j].dt = d] :
                 j \in DOMAIN strs[i].trans, d \in {-1, 1}} : i \in DOMAIN strs}

\* Texts that are no NUL-terminated UTF-8 string: no NUL, a byte after the
\* first NUL, a stray continuation byte, a lead byte without its
\* continuation, bytes that start no character, a character cut short.
BadTexts ==
  {<<72, 105>>, <<72, 0, 105, 0>>, <<72, 0, 105>>, <<128, 0>>, <<195, 0>>,
   <<192, 128, 0>>, <<255, 0>>, <<226, 130, 0>>, <<72, 195>>}

\* The TEXT blocks decoded string by string.
TextInputs ==
  {TextBlock(2, strs, 0) : strs \in WellFormed}
  \cup {TextBlock(2, strs, 0) :
          strs \in OffByOne(TwoLanguages) \cup OffByOne(WithUnknown(Hello))
                   \cup OffByOne(TwoStrings)}
  \cup {TextBlock(2, strs, d) :
          strs \in {TwoLanguages, WithUnknown(Hello), TwoStrings}, d \in {-1, 1}}
  \cup {TextBlock(2, OneString(en_GB, t), 0) : t \in BadTexts \cup {<<>>}}
  \cup {TextBlock(2, <<String(t, <<Translation(en_GB, Hello)>>)>>, 0) :
          t \in BadTexts \cup {<<>>}}
  \cup {TextBlock(2, OneString(t, Hello), 0) : t \in {<<>>, <<120, 120>>}}
  \cup {TextBlock(1, TwoLanguages, 0), TextBlock(2, <<>>, 0)}

\* The header of a TEXT block is read, the TEXT branch makes a new TextData
\* and calls its Load, which checks the version.
TextEnter(inputs, bound) ==
  /\ pc = "loop"
  /\ nread_run < bound
  /\ \E blk \in inputs :
       /\ txt' = TextBegin(blk)
       /\ nread_run' = nread_run + 1
       /\ Becomes([Env EXCEPT !.pc = "text", !.cur = blk, !.nheaders = @ + 1])
       /\ UNCHANGED <<file_hdr, lookup, whole>>

\* One pass of the loop over the strings of the block.
TextLoop ==
  /\ pc = "text"
  /\ txt.status = "run"
  /\ txt.length > 0
  /\ txt' = ReadString(cur.payload, txt)
  /\ UNCHANGED <<loadvars, lookup, whole>>

\* What is left of the locals once Load returned: what it returned and the
\* TextData as it left it.
TextReturned(h, d) ==
  [status |-> "returned", ok |-> h.ok, abort |-> h.abort, obj |-> h.obj,
   used_strings |-> d.used_strings, used_size |-> d.used_size]

\* The loop is left: Load returns, the branch registers the TextData or
\* returns its message.
TextLeaveWith(h) ==
  /\ pc = "text"
  /\ txt.status # "run" \/ txt.length <= 0
  /\ txt' = TextReturned(h, txt)
  /\ Becomes(Finish(Env, TextBranch(Env, cur, h), "TEXT"))
  /\ UNCHANGED <<file_hdr, nread_run, lookup, whole>>

TextLeave == TextLeaveWith(TextCommit(NewTextData, txt))

TextEnterSmall == TextEnter(TextInputs, MaxTextRun)

SpecText == Init /\ [][LoadStart \/ TextEnterSmall \/ TextLoop \/ TextLeave]_vars

\* ------------------------------------ TextData::Load at its two limits

\* A name of n bytes, the NUL included.
LongName(n) == [i \in 1..n |-> IF i = n THEN 0 ELSE 78]

\* The bytes of a string with a name of name_len bytes and one translation
\* in en_GB with a text of text_len bytes.
Record(name_len, text_len) ==
  EncodeString(String(LongName(name_len),
                      <<Translation(en_GB, LongText(text_len))>>))

\* A well-formed TEXT block of version 2: the bytes rec, n times over, and
\* the bytes last_rec after them, each the bytes of a string.  nstrings is how
\* many strings the block has, stored how many bytes of them go to the
\* buffer (the names and the texts).
LimitBlock(n, rec, last_rec, stored) ==
  [kind |-> "block", name |-> "TEXT", version |-> 2,
   size |-> n * Len(rec) + Len(last_rec), n |-> n, rec |-> rec,
   last |-> last_rec,
   nstrings |-> n + 1, stored |-> stored]

\* n strings with names of name_len bytes and texts of text_len bytes, and
\* one more string after them.
ManyAndOne(n, name_len, text_len, last_name_len, last_text_len) ==
  LimitBlock(n, Record(name_len, text_len),
             Record(last_name_len, last_text_len),
             n * (name_len + text_len) + last_name_len + last_text_len)

\* The bytes of the block blk, byte by byte.  The stream goes on after the
\* block (with a 0).
LimitPayload(blk) ==
  [i \in 1..(blk.size + 1) |->
     IF i <= blk.n * Len(blk.rec) THEN blk.rec[((i - 1) % Len(blk.rec)) + 1]
     ELSE IF i <= blk.size THEN blk.last[i - blk.n * Len(blk.rec)]
     ELSE 0]

\* The blocks at the limits: as many strings as the table has room for that
\* fill the buffer to its last byte; one string too many; a last text, and
\* a last name, that is one byte too long for what is left of the buffer.
LimitInputs ==
  {ManyAndOne(MAX_NUM_TEXT_STRINGS - 1, 8, 120, 8, 120),
   ManyAndOne(MAX_NUM_TEXT_STRINGS, 2, 2, 2, 2),
   ManyAndOne(MAX_NUM_TEXT_STRINGS - 1, 8, 120, 8, 121),
   ManyAndOne(MAX_NUM_TEXT_STRINGS - 1, 8, 120, 129, 2)}

\* The bytes of the buffer, and of the text_data of a TextData, are kept in
\* pages of PageSize bytes, every page full but the last.  How many bytes
\* the pages hold:
PagedLen(pages) ==
  IF pages = <<>> THEN 0
  ELSE PageSize * (Len(pages) - 1) + Len(pages[Len(pages)])

\* The byte j of the pages followed by bytes.
ByteAt(pages, bytes, j) ==
  IF j <= PagedLen(pages)
  THEN pages[((j - 1) \div PageSize) + 1][((j - 1) % PageSize) + 1]
  ELSE bytes[j - PagedLen(pages)]

\* The pages with bytes written after them.
AppendPages(pages, bytes) ==
  [k \in 1..((PagedLen(pages) + Len(bytes) + PageSize - 1) \div PageSize) |->
     IF k < Len(pages) THEN pages[k]
     ELSE [i \in 1..Min(PageSize,
                        PagedLen(pages) + Len(bytes) - (k - 1) * PageSize) |->
             ByteAt(pages, bytes, (k - 1) * PageSize + i)]]

\* The bytes of the pages, and the pages of bytes.
Flat(pages) == [j \in 1..PagedLen(pages) |-> ByteAt(pages, <<>>, j)]

Pages(bytes) == AppendPages(<<>>, bytes)

\* Up to n passes of "while (length > 0)".
RECURSIVE ReadStringsN(_, _, _)
ReadStringsN(p, d, n) ==
  IF n = 0 \/ d.status # "run" \/ d.length <= 0 THEN d
  ELSE IF n = 1 THEN ReadString(p, d)
  ELSE ReadStringsN(p, ReadStringsN(p, d, n \div 2), n - (n \div 2))

\* The locals t, their buffer in pages, after the passes that gave d from
\* t with nothing in its buffer: the bytes of d are written after those of t
\* (the loop writes the buffer at used_size and reads nothing of it).
Written(t, d) == [d EXCEPT !.buffer = AppendPages(t.buffer, d.buffer)]

\* n passes of the loop over the strings of the block as one step.
TextPasses(n) ==
  /\ pc = "text"
  /\ txt.status = "run"
  /\ txt.length > 0
  /\ txt' = Written(txt, ReadStringsN(LimitPayload(cur),
                                      [txt EXCEPT !.buffer = <<>>], n))
  /\ UNCHANGED <<loadvars, lookup, whole>>

TextEnterLimit == TextEnter(LimitInputs, MaxLimitRun)

\* One pass of the loop.
TextLoopLimit == TextPasses(1)

\* LoopChunk passes of the loop taken as one step.  The loop is
\* deterministic, so the step reaches no state that TextLoopLimit does not
\* reach pass by pass; it only gets to the end of a long block in few steps.
TextLoopChunk ==
  /\ pc = "text"
  /\ txt.status = "run"
  /\ txt.used_strings % LoopChunk = 0
  /\ TextPasses(LoopChunk)

\* What Load returned, the text_data of the object in pages.
PagedResult(h) == [h EXCEPT !.obj.text_data = Pages(@)]

\* The loop is left, as in TextLeave.
TextLeaveLimit ==
  TextLeaveWith(PagedResult(TextCommit(NewTextData,
                                       [txt EXCEPT !.buffer = Flat(@)])))

SpecLimit ==
  Init /\ [][LoadStart \/ TextEnterLimit \/ TextLoopLimit \/ TextLoopChunk
               \/ TextLeaveLimit]_vars

\* ------------------------------------------ one cross-reference lookup

\* The tables a lookup can be given: any map from IDs to objects, a map
\* with the key 0 included.
LookupTables ==
  UNION {[d -> {Obj(1, 1), Obj(1, 2)}] : d \in SUBSET RefIds}

\* The calls of LoadSpriteFromFile and LoadTextFromFile: the value read from
\* the file and the table passed.
LookupInputs ==
  {[done |-> FALSE, kind |-> k, val |-> v, table |-> t] :
     k \in {"sprite", "text"}, v \in RefIds \cup {3}, t \in LookupTables}

InitRef ==
  /\ Is(InitEnv)
  /\ file_hdr = [magic |-> "", version |-> 0]
  /\ nread_run = 0
  /\ lookup \in LookupInputs
  /\ whole = NoWhole
  /\ txt = NoText

\* A call of LoadSpriteFromFile(rcd_file, sprites, &spr).
ResolveSprite ==
  /\ ~lookup.done
  /\ lookup.kind = "sprite"
  /\ LET r == LoadSpriteFromFile(lookup.val, lookup.table)
     IN lookup' = [done |-> TRUE, kind |-> lookup.kind, val |-> lookup.val,
                   table |-> lookup.table, ok |-> r.ok, obj |-> r.spr]
  /\ UNCHANGED <<loadvars, whole, txt>>

\* A call of LoadTextFromFile(rcd_file, texts, &txt).
ResolveText ==
  /\ ~lookup.done
  /\ lookup.kind = "text"
  /\ LET r == LoadTextFromFile(lookup.val, lookup.table)
     IN lookup' = [done |-> TRUE, kind |-> lookup.kind, val |-> lookup.val,
                   table |-> lookup.table, ok |-> r.ok, obj |-> r.txt]
  /\ UNCHANGED <<loadvars, whole, txt>>

NextRef == ResolveSprite \/ ResolveText

SpecRef == InitRef /\ [][NextRef]_vars

\* ------------------------------------------------ Load on a whole file

\* The blocks the files are made of.
FileBlocks ==
  {b \in SkipBlocks : b.name = "XTRA" \/ b.avail = b.size}
  \cup {b \in ImageBlocks : b.name = "8PXL" /\ b.ok}
  \cup {b \in TextBlocks : b.version = 2 /\ TextDataLoad(b).ok}
  \cup {SurfBlock(6, 98, 16, 64, r) : r \in RefSeqs(NUM_SLOPE_SPRITES)}
  \cup {FsetBlock(1, 4, 64, 0, 1, <<>>), TimaBlock(1, 12, 1, <<2>>)}

\* The files: a file header and up to MaxFileLen blocks, then the end.
Files ==
  {[done |-> FALSE, hdr |-> h, file |-> f] :
     h \in FileHeaders,
     f \in UNION {[1..n -> FileBlocks] : n \in 0..MaxFileLen}}

\* The loop of Load on the blocks of file, to the return of Load.
RECURSIVE RunLoad(_, _)
RunLoad(e, file) ==
  IF e.pc # "loop" THEN e
  ELSE IF file = <<>> THEN Step(e, [kind |-> "eof"])
  ELSE RunLoad(Step(e, Head(file)), Tail(file))

\* The loop of Load on the first blocks of a file.
RECURSIVE RunBlocks(_, _)
RunBlocks(e, blks) ==
  IF e.pc # "loop" \/ blks = <<>> THEN e
  ELSE RunBlocks(Step(e, Head(blks)), Tail(blks))

InitFile ==
  /\ Is(InitEnv)
  /\ file_hdr = [magic |-> "", version |-> 0]
  /\ nread_run = 0
  /\ lookup = NoLookup
  /\ whole \in Files
  /\ txt = NoText

\* A call of Load("a.rcd") from its first to its last statement.
LoadFile ==
  /\ pc = "idle"
  /\ ~whole.done
  /\ whole' = [whole EXCEPT !.done = TRUE]
  /\ file_hdr' = whole.hdr
  /\ Becomes(RunLoad(Open(Env, "a.rcd", whole.hdr), whole.file))
  /\ UNCHANGED <<nread_run, lookup, txt>>

NextFile == LoadFile

SpecFile == InitFile /\ [][NextFile]_vars

\* ------------------------------------- Load of another SpriteManager

\* The loop body of Load called on a SpriteManager that is not
\* _sprite_manager: TimedAnimation::Load looks its views up in
\* _sprite_manager, whose frame sets are global_sets, and not in the manager
\* that loads; every other handler works on the manager that loads.
HandleOn(e1, inp, global_sets) ==
  IF inp.name = "TIMA"
  THEN Finish(e1, TimedAnimationBranch(e1, inp,
                    TimedAnimationLoad(inp, e1.filename, global_sets)), "TIMA")
  ELSE Handle(e1, inp)

StepOn(e, inp, global_sets) ==
  IF ~ReadBlockHeader(inp)
  THEN Return([e EXCEPT !.cur = inp, !.last = NoReport], "nullptr")
  ELSE HandleOn([e EXCEPT !.cur = inp, !.nheaders = @ + 1], inp, global_sets)

\* The loop of Load of the other manager on the blocks of file.
RECURSIVE RunLoadOn(_, _, _)
RunLoadOn(e, file, global_sets) ==
  IF e.pc # "loop" THEN e
  ELSE IF file = <<>> THEN StepOn(e, [kind |-> "eof"], global_sets)
  ELSE RunLoadOn(StepOn(e, Head(file), global_sets), Tail(file), global_sets)

\* Blocks of the files loaded twice: blocks that Load accepts and that go to
\* the manager (none for _gui_sprites, which every manager shares).
TwiceBlocks ==
  {b \in SkipBlocks : b.name = "XTRA" /\ b.avail = b.size}
  \cup {ImageBlock, TextBlock(2, OneString(en_GB, Hello), 0),
        FsetBlock(1, 4, 64, 0, 1, <<>>), FsetBlock(1, 20, 64, 1, 1, OneRefs(4))}
  \cup {TimaBlock(1, 12, 1, <<a>>) : a \in {0, 1, 2}}

\* A well-formed file and the managers that loaded it: _sprite_manager did
\* when done, others are the SpriteManagers made for the file, as Load left
\* them.
TwiceFiles ==
  {[done |-> FALSE, hdr |-> [magic |-> "RCDF", version |-> 2], file |-> f,
    others |-> <<>>] :
     f \in UNION {[1..n -> TwiceBlocks] : n \in 1..MaxFileLen}}

InitTwice ==
  /\ Is(InitEnv)
  /\ file_hdr = [magic |-> "", version |-> 0]
  /\ nread_run = 0
  /\ lookup = NoLookup
  /\ whole \in TwiceFiles
  /\ txt = NoText

\* Load("a.rcd") called on a new SpriteManager.
LoadOther ==
  /\ pc = "idle"
  /\ Len(whole.others) < MaxOthers
  /\ whole' = [whole EXCEPT
                 !.others = Append(@, RunLoadOn(Open(InitEnv, "a.rcd", whole.hdr),
                                                whole.file, frame_sets))]
  /\ UNCHANGED <<loadvars, file_hdr, lookup, txt>>

SpecTwice == InitTwice /\ [][LoadFile \/ LoadOther]_vars

\* ------------------------------------------ SpriteManager::LoadRcdFiles

\* The names of the files of _rcd_collection, in the order of its map.
CollectionNames == <<"a.rcd", "b.rcd", "c.rcd", "d.rcd">>

GoodHeader == [magic |-> "RCDF", version |-> 2]

\* What a file of the collection may hold: a file Load reads to its end, an
\* empty file, a file with a bad header, a file with a SURF block that
\* fails, and a file with a FENC block that AddFence does not take.
CollectionFiles ==
  {[hdr |-> GoodHeader, file |-> <<ImageBlock>>],
   [hdr |-> GoodHeader, file |-> <<>>],
   [hdr |-> [magic |-> "RCDX", version |-> 2], file |-> <<ImageBlock>>],
   [hdr |-> GoodHeader,
    file |-> <<SurfBlock(6, 98, 99, 64, NoRefs(NUM_SLOPE_SPRITES)), ImageBlock>>],
   [hdr |-> GoodHeader,
    file |-> <<FenceBlock(2, 4 + 4 * FENCE_COUNT, 32, 0, NoRefs(FENCE_COUNT))>>]}

\* _rcd_collection and the loop of LoadRcdFiles over it: the file the loop
\* is at, the calls of Load it made and the lines it printed.
Collections ==
  {[rcdfiles |-> c, entry |-> 1, calls |-> <<>>, printed |-> <<>>,
    returned |-> FALSE] :
     c \in UNION {[1..n -> CollectionFiles] : n \in 1..MaxCollection}}

InitCollection ==
  /\ Is(InitEnv)
  /\ file_hdr = [magic |-> "", version |-> 0]
  /\ nread_run = 0
  /\ lookup = NoLookup
  /\ whole \in Collections
  /\ txt = NoText

\* What LoadRcdFiles has done once the Load of the file fname left the
\* manager as e: it printed the message if there is one.
AfterLoad(w, fname, e) ==
  [w EXCEPT !.entry = @ + 1,
            !.calls = Append(@, fname),
            !.printed = IF e.pc = "idle" /\ e.result # "nullptr"
                        THEN Append(@, <<fname, e.result>>) ELSE @]

\* One pass of the loop of LoadRcdFiles, the Load of the entry having left
\* the manager as e.
LoadEntry(w, e) == AfterLoad(w, CollectionNames[w.entry], e)

\* The Load of the entry the loop is at.
EntryLoad(w) ==
  RunLoad(Open(Env, CollectionNames[w.entry], w.rcdfiles[w.entry].hdr),
          w.rcdfiles[w.entry].file)

\* One pass of the loop of LoadRcdFiles.
LoadRcdFile ==
  /\ pc = "idle"
  /\ ~whole.returned
  /\ whole.entry <= Len(whole.rcdfiles)
  /\ whole' = LoadEntry(whole, EntryLoad(whole))
  /\ file_hdr' = whole.rcdfiles[whole.entry].hdr
  /\ Becomes(EntryLoad(whole))
  /\ UNCHANGED <<nread_run, lookup, txt>>

\* The loop is over: LoadRcdFiles returns.
LoadRcdFilesReturn ==
  /\ pc = "idle"
  /\ ~whole.returned
  /\ whole.entry > Len(whole.rcdfiles)
  /\ whole' = [whole EXCEPT !.returned = TRUE]
  /\ UNCHANGED <<loadvars, lookup, txt>>

SpecCollection == InitCollection /\ [][LoadRcdFile \/ LoadRcdFilesReturn]_vars

\* ------------------------------------------------------- Saver and Loader
\* loadsave.h declares the two classes; their member functions are modelled
\* from the description of the save/load primitive.

\* uint8 cache[8] of the Loader.
CacheSize == 8

\* What OpenBlock returns for a block that is not there: a value that is
\* not the version of a block.
NoBlock == -1

\* Names of blocks, as the four bytes of the stream.
PLYR == <<80, 76, 89, 82>>
PLAN == <<80, 76, 65, 78>>
OTHR == <<79, 84, 72, 82>>
\* The names blocks are saved with, and the names the reader asks for.
SavedNames == {PLYR, PLAN}
BlockNames == {PLYR, PLAN, OTHR}

\* Versions blocks are saved at, and the version the reader expects.
SavedVersions == {2, 3}
CurrentVersion == 2

\* Bytes a caller of the Saver puts, and bytes pushed back on the Loader.
PayloadBytes == {7}
PushedBytes == {0}

NoFail == [kind |-> "nullptr"]

\* A 32 bit value as the bytes of the stream, and back.
LongBytes(v) == <<v % 256, (v \div 256) % 256, (v \div 65536) % 256,
                  (v \div 16777216) % 256>>
LongOf(b) == b[1] + 256 * b[2] + 65536 * b[3] + 16777216 * b[4]

\* Saver::Saver.
NewSaver == [out |-> <<>>, scopes |-> <<>>, blk_name |-> <<>>,
             fail_msg |-> NoFail, started |-> <<>>, nbytes |-> 0]

\* A violation of the protocol of the scopes ends the program.
Violation(x, what) == [x EXCEPT !.fail_msg = [kind |-> "fatal", text |-> what]]

\* Saver::PutByte and Saver::PutLong.
SaverPutByte(svr, val) == [svr EXCEPT !.out = Append(@, val)]
SaverPutLong(svr, val) == [svr EXCEPT !.out = @ \o LongBytes(val)]

\* Saver::StartBlock writes the header of the block: its name and version.
StartBlock(svr, name, version) ==
  [SaverPutLong([svr EXCEPT !.out = @ \o name], version) EXCEPT
     !.scopes = Append(@, [name |-> name, version |-> version]),
     !.blk_name = name,
     !.started = Append(@, [name |-> name, version |-> version])]

\* The scopes without the innermost, and what blk_name is then.
Outer(scopes) == SubSeq(scopes, 1, Len(scopes) - 1)
NameOf(scopes) == IF scopes = <<>> THEN <<>> ELSE scopes[Len(scopes)].name

\* Saver::EndBlock with the innermost scope not closed, for comparison.
EndBlock_KeepOpen(svr) ==
  IF svr.scopes = <<>> THEN Violation(svr, "EndBlock without StartBlock")
  ELSE svr

\* Saver::EndBlock writes nothing; it closes the innermost scope.
EndBlock(svr) ==
  IF svr.scopes = <<>> THEN Violation(svr, "EndBlock without StartBlock")
  ELSE [svr EXCEPT !.scopes = Outer(@), !.blk_name = NameOf(Outer(svr.scopes))]

\* The end of a save or of a load: no scope may be open.
EndOfStream(x) ==
  IF x.scopes # <<>> THEN Violation(x, "open block at the end") ELSE x

\* Loader::Loader(fp).
NewLoader(stream) ==
  [fp |-> stream, cache |-> [i \in 0..(CacheSize - 1) |-> 0],
   cache_count |-> 0, wrote |-> 0, scopes |-> <<>>, blk_name |-> <<>>,
   fail_msg |-> NoFail, ret |-> 0, restored |-> <<>>]

\* The bytes the next reads of the Loader return: cache, last pushed first,
\* then the file.
Pending(ldr) ==
  [i \in 1..ldr.cache_count |-> ldr.cache[ldr.cache_count - i]] \o ldr.fp

\* A LoadingError thrown by the Loader or by its caller: the load is over.
Throw(ldr, msg) == [ldr EXCEPT !.fail_msg = msg]
Failed(x) == x.fail_msg # NoFail

\* Loader::GetByte: the value last pushed back if there is one, else the
\* next byte of the file. (No read looks at the cache above cache_count:
\* the model keeps 0 there.)
GetByte(ldr) ==
  IF ldr.cache_count > 0
  THEN [ldr EXCEPT !.cache_count = @ - 1, !.cache[ldr.cache_count - 1] = 0,
                   !.ret = ldr.cache[ldr.cache_count - 1]]
  ELSE [ldr EXCEPT !.fp = Tail(@), !.ret = Head(ldr.fp)]

\* Loader::PutByte without its test of the room, for comparison.
PutByte_Unchecked(ldr, val) ==
  [ldr EXCEPT !.cache[ldr.cache_count] = val, !.cache_count = @ + 1,
              !.wrote = ldr.cache_count]

\* Loader::PutByte: pushes val back; a push on a full cache ends the program.
PutByte(ldr, val) ==
  IF ldr.cache_count >= CacheSize THEN Violation(ldr, "cache full")
  ELSE [ldr EXCEPT !.cache[ldr.cache_count] = val, !.cache_count = @ + 1,
                   !.wrote = ldr.cache_count]

\* Loader::GetLong: four bytes, lowest first.
GetLong(ldr) ==
  LET b1 == GetByte(ldr)
      b2 == GetByte(b1)
      b3 == GetByte(b2)
      b4 == GetByte(b3)
  IN [b4 EXCEPT !.ret = LongOf(<<b1.ret, b2.ret, b3.ret, b4.ret>>)]

\* The bytes pushed back first to last, for comparison.
RECURSIVE PushBack_Forward(_, _)
PushBack_Forward(ldr, bytes) ==
  IF bytes = <<>> \/ Failed(ldr) THEN ldr
  ELSE PushBack_Forward(PutByte(ldr, Head(bytes)), Tail(bytes))

\* The bytes read are pushed back, the last one read first.
RECURSIVE PushBack(_, _)
PushBack(ldr, bytes) ==
  IF bytes = <<>> \/ Failed(ldr) THEN ldr
  ELSE PushBack(PutByte(ldr, bytes[Len(bytes)]), Outer(bytes))

\* The bytes of the stream are compared with the name, from byte i on; the
\* bytes read come with the answer.
RECURSIVE ReadName(_, _, _, _)
ReadName(ldr, name, i, read) ==
  IF i > Len(name) THEN [ldr |-> ldr, found |-> TRUE, read |-> read]
  ELSE LET g == GetByte(ldr)
       IN IF g.ret # name[i]
          THEN [ldr |-> g, found |-> FALSE, read |-> Append(read, g.ret)]
          ELSE ReadName(g, name, i + 1, Append(read, g.ret))

\* Loader::OpenBlock that fails whatever may_fail is, for comparison.
OpenBlock_AlwaysFatal(ldr, name, may_fail) ==
  LET t == ReadName(ldr, name, 1, <<>>)
  IN IF ~t.found
     THEN Throw(PushBack(t.ldr, t.read),
                [kind |-> "LoadingError", text |-> "Missing block",
                 name |-> name])
     ELSE LET v == GetLong(t.ldr)
          IN [v EXCEPT !.scopes = Append(@, [name |-> name, version |-> v.ret]),
                       !.blk_name = name]

\* Loader::OpenBlock: reads the name of the block; with another name in the
\* stream the bytes read are pushed back and the call fails, or returns
\* NoBlock if it may fail; with the name it opens the scope and returns
\* the version stored.
OpenBlock(ldr, name, may_fail) ==
  LET t == ReadName(ldr, name, 1, <<>>)
  IN IF ~t.found
     THEN IF may_fail THEN [PushBack(t.ldr, t.read) EXCEPT !.ret = NoBlock]
          ELSE Throw(PushBack(t.ldr, t.read),
                     [kind |-> "LoadingError", text |-> "Missing block",
                      name |-> name])
     ELSE LET v == GetLong(t.ldr)
          IN [v EXCEPT !.scopes = Append(@, [name |-> name, version |-> v.ret]),
                       !.blk_name = name]

\* Loader::CloseBlock: closes the innermost scope; the block is restored.
CloseBlock(ldr) ==
  IF ldr.scopes = <<>> THEN Violation(ldr, "CloseBlock without OpenBlock")
  ELSE [ldr EXCEPT !.scopes = Outer(@), !.blk_name = NameOf(Outer(ldr.scopes)),
                   !.restored = Append(@, NameOf(ldr.scopes))]

\* Loader::version_mismatch that only notes the message, for comparison.
version_mismatch_Noted(ldr, name, saved_version, current_version) ==
  [ldr EXCEPT !.ret = <<name, saved_version, current_version>>]

\* Loader::version_mismatch throws the LoadingError with the name of the
\* block and the two versions in its message.
version_mismatch(ldr, name, saved_version, current_version) ==
  Throw(ldr, [kind |-> "LoadingError", text |-> "Version mismatch",
              name |-> name, saved_version |-> saved_version,
              current_version |-> current_version])

\* The state of a save followed by the load of what was saved.
InitSaveLoad ==
  /\ Is(InitEnv)
  /\ file_hdr = [magic |-> "", version |-> 0]
  /\ nread_run = 0
  /\ lookup = NoLookup
  /\ whole = [phase |-> "save", svr |-> NewSaver, ldr |-> NewLoader(<<>>)]
  /\ txt = NoText

\* The Saver or the Loader goes on as x, if it did not fail.
Saved(svr) ==
  /\ whole' = [whole EXCEPT !.svr = svr,
                            !.phase = IF Failed(svr) THEN "failed" ELSE @]
  /\ UNCHANGED <<loadvars, lookup, txt>>

Called(ldr) ==
  /\ whole' = [whole EXCEPT
                 !.ldr = ldr,
                 !.phase = IF Failed(ldr) THEN "failed" ELSE @]
  /\ UNCHANGED <<loadvars, lookup, txt>>

CallStartBlock ==
  /\ whole.phase = "save"
  /\ Len(whole.svr.started) < MaxBlocks
  /\ Len(whole.svr.scopes) < MaxDepth
  /\ \E name \in SavedNames, version \in SavedVersions :
       \* Only the player block is saved with a version of its own.
       /\ name = PLYR \/ version = CurrentVersion
       /\ Saved(StartBlock(whole.svr, name, version))

CallSaverPutByte ==
  /\ whole.phase = "save"
  /\ whole.svr.nbytes < MaxPayload
  /\ \E val \in PayloadBytes :
       Saved([SaverPutByte(whole.svr, val) EXCEPT !.nbytes = @ + 1])

CallEndBlock ==
  /\ whole.phase = "save"
  /\ Saved(EndBlock(whole.svr))

\* The save is over; the file is opened for the load.
SaveDone ==
  /\ whole.phase = "save"
  /\ whole' = [whole EXCEPT
                 !.svr = EndOfStream(whole.svr),
                 !.phase = IF whole.svr.scopes # <<>> THEN "failed" ELSE "load",
                 !.ldr = NewLoader(whole.svr.out)]
  /\ UNCHANGED <<loadvars, lookup, txt>>

CallOpenBlock ==
  /\ whole.phase = "load"
  /\ Len(whole.ldr.scopes) < MaxDepth
  /\ Len(Pending(whole.ldr)) >= 8
  /\ \E name \in BlockNames, may_fail \in BOOLEAN :
       Called(OpenBlock(whole.ldr, name, may_fail))

CallCloseBlock ==
  /\ whole.phase = "load"
  /\ Called(CloseBlock(whole.ldr))

\* The bytes of a block are read while the block is open.
CallGetByte ==
  /\ whole.phase = "load"
  /\ whole.ldr.scopes # <<>>
  /\ Len(Pending(whole.ldr)) >= 1
  /\ Called(GetByte(whole.ldr))

CallPutByte ==
  /\ whole.phase = "load"
  /\ \E val \in PushedBytes : Called(PutByte(whole.ldr, val))

\* The caller of OpenBlock got a version it cannot read.
CallVersionMismatch ==
  /\ whole.phase = "load"
  /\ whole.ldr.scopes # <<>>
  /\ LET top == whole.ldr.scopes[Len(whole.ldr.scopes)]
     IN /\ top.version # CurrentVersion
        /\ Called(version_mismatch(whole.ldr, top.name, top.version,
                                   CurrentVersion))

\* The load is over.
LoadDone ==
  /\ whole.phase = "load"
  /\ whole' = [whole EXCEPT
                 !.ldr = EndOfStream(whole.ldr),
                 !.phase = IF whole.ldr.scopes # <<>> THEN "failed" ELSE "done"]
  /\ UNCHANGED <<loadvars, lookup, txt>>

SpecSaveLoad ==
  InitSaveLoad /\ [][CallStartBlock \/ CallSaverPutByte \/ CallEndBlock
                     \/ SaveDone \/ CallOpenBlock \/ CallCloseBlock
                     \/ CallGetByte
                     \/ CallVersionMismatch \/ LoadDone]_vars

\* The saves of one block with a byte in it.
OneBlockSaves ==
  {EndBlock(SaverPutByte(StartBlock(NewSaver, name, version), val)) :
     name \in SavedNames, version \in SavedVersions, val \in PayloadBytes}

\* The load of one block, with bytes pushed back at any time.
InitCache ==
  /\ Is(InitEnv)
  /\ file_hdr = [magic |-> "", version |-> 0]
  /\ nread_run = 0
  /\ lookup = NoLookup
  /\ whole \in {[phase |-> "load", svr |-> svr, ldr |-> NewLoader(svr.out)] :
                  svr \in OneBlockSaves}
  /\ txt = NoText

SpecCache ==
  InitCache /\ [][CallOpenBlock \/ CallGetByte \/ CallPutByte]_vars

\* --------------------------------------------- TimedAnimation::GetFrame

\* The ends of the int of 32 bits.
MaxInt32 == 2^30 + (2^30 - 1)
MinInt32 == -(2^30) - 2^30

\* a + b and a - b in an int of 32 bits: the result wraps.
Int32Add(a, b) ==
  IF a > 0 /\ b > 0 /\ a > MaxInt32 - b
  THEN (a - 2^30 - 2^30) + (b - 2^30 - 2^30)
  ELSE IF a < 0 /\ b < 0 /\ a < MinInt32 - b
  THEN (a + 2^30 + 2^30) + (b + 2^30 + 2^30)
  ELSE a + b

Int32Sub(a, b) ==
  IF b = MinInt32 THEN Int32Add(Int32Add(a, MaxInt32), 1)
  ELSE Int32Add(a, -b)

\* a % b of C++ for b > 0: the sign of the result is that of a.
Remainder(a, b) ==
  IF a >= 0 \/ a % b = 0 THEN a % b ELSE (a % b) - b

\* TimedAnimation::GetTotalDuration.
RECURSIVE SumDurations(_, _)
SumDurations(durations, n) ==
  IF n = 0 THEN 0
  ELSE Int32Add(SumDurations(durations, n - 1), durations[n])

GetTotalDuration(anim) == SumDurations(anim.durations, anim.frames)

\* What NOT_REACHED() stands for in the results of GetFrame.
NotReached == -2

\* The loop of GetFrame from frame i on, with time left.
RECURSIVE FrameLoop(_, _, _)
FrameLoop(anim, i, time) ==
  IF i >= anim.frames THEN NotReached
  ELSE IF Int32Sub(time, anim.durations[i + 1]) <= 0 THEN i
  ELSE FrameLoop(anim, i + 1, Int32Sub(time, anim.durations[i + 1]))

\* TimedAnimation::GetFrame.
GetFrame(anim, time, loop_around) ==
  LET total_length == GetTotalDuration(anim)
  IN IF total_length <= 0 \/ (~loop_around /\ total_length > time) THEN -1
     ELSE FrameLoop(anim, 0, Remainder(time, total_length))

\* The durations a TIMA block can give a frame (each a uint32 stored in an
\* int) and the times asked for.
FrameDurations == ((-1)..MaxDuration) \cup {MaxInt32, MinInt32}

FrameTimes == ((-MaxTime)..MaxTime) \cup {MaxInt32, MinInt32}

\* The timed animations asked for a frame.
FrameAnimations ==
  {[frames |-> n, durations |-> d, views |-> [f \in 1..n |-> Null]] :
     n \in 0..MaxFrames, d \in UNION {[1..m -> FrameDurations] : m \in 0..MaxFrames}}

InitFrame ==
  /\ Is(InitEnv)
  /\ file_hdr = [magic |-> "", version |-> 0]
  /\ nread_run = 0
  /\ lookup = NoLookup
  /\ whole \in {[anim |-> a, called |-> FALSE, time |-> 0,
                 loop_around |-> FALSE, frame |-> 0] :
                  a \in {b \in FrameAnimations : Len(b.durations) = b.frames}}
  /\ txt = NoText

\* A call of GetFrame(time, loop_around) on the animation.
CallGetFrame ==
  /\ pc = "idle"
  /\ ~whole.called
  /\ \E time \in FrameTimes, loop_around \in BOOLEAN :
       whole' = [whole EXCEPT !.called = TRUE, !.time = time,
                              !.loop_around = loop_around,
                              !.frame = GetFrame(whole.anim, time, loop_around)]
  /\ UNCHANGED <<loadvars, lookup, txt>>

SpecFrame == InitFrame /\ [][CallGetFrame]_vars

\* --------------------------------------------- TimedAnimation::Load

\* The lengths and the frame counts of the TIMA blocks, as ints of 32 bits:
\* around 4 + 8 * frames for small counts, and where 8 * frames wraps.
TimaSizes == {0, 3, 4, 8, 12, 20, 28, -4, -12, 2^30 + (2^30 - 4)}

TimaCounts ==
  (0..MaxFrames)
  \cup {-1, -2, 2^28 - 1, 2^28, 2^28 + 1, 2^29, 2^29 + 1, 2^29 + MaxFrames,
        2^30, 2^30 + 1, -(2^29), -(2^29) + 1, -(2^30), -(2^30) - (2^30 - 1)}

\* A TIMA block of the length and the frame count; its payload holds the
\* frames the length has room for.
TimaInput(v, s, n) ==
  TimaBlock(v, s, n,
            [i \in 1..(IF s >= 4 /\ s <= 4 + 8 * MaxFrames
                       THEN (s - 4) \div 8 ELSE 0) |-> 0])

InitTima ==
  /\ Is(InitEnv)
  /\ file_hdr = [magic |-> "", version |-> 0]
  /\ nread_run = 0
  /\ lookup = NoLookup
  /\ whole \in {[blk |-> TimaInput(v, s, n), called |-> FALSE, h |-> NoReport] :
                  v \in {1, 2}, s \in TimaSizes, n \in TimaCounts}
  /\ txt = NoText

\* A call of TimedAnimation::Load on the block.
CallTimaLoad ==
  /\ pc = "idle"
  /\ ~whole.called
  /\ whole' = [whole EXCEPT
                 !.called = TRUE,
                 !.h = TimedAnimationLoad(whole.blk, "a.rcd", frame_sets)]
  /\ UNCHANGED <<loadvars, lookup, txt>>

SpecTima == InitTima /\ [][CallTimaLoad]_vars

\* ------------------------------------------- Load after Load

\* The blocks of the files that are loaded one after the other: frame sets,
\* timed animations that refer to block 1, 2 or nothing, and a frame set
\* whose Load fails.
ReloadBlocks ==
  {FsetBlock(1, 4, 64, 0, 1, <<>>), FsetBlock(2, 4, 64, 0, 1, <<>>)}
  \cup {TimaBlock(1, 12, 1, <<a>>) : a \in RefIds}

ReloadFiles == UNION {[1..n -> ReloadBlocks] : n \in 0..MaxFileLen}

InitReload ==
  /\ Is(InitEnv)
  /\ file_hdr = [magic |-> "", version |-> 0]
  /\ nread_run = 0
  /\ lookup = NoLookup
  /\ whole = NoWhole
  /\ txt = NoText

\* A call of _sprite_manager.Load(f) from its first to its last statement,
\* on a file of the name f with the blocks of file.
LoadNamed ==
  /\ pc = "idle"
  /\ loads < MaxLoads
  /\ \E f \in FileNames, file \in ReloadFiles :
       LET hdr == [magic |-> "RCDF", version |-> 2]
       IN /\ file_hdr' = hdr
          /\ whole' = [done |-> TRUE, hdr |-> hdr, file |-> file]
          /\ Becomes(RunLoad(Open(Env, f, hdr), file))
  /\ UNCHANGED <<nread_run, lookup, txt>>

SpecReload == InitReload /\ [][LoadNamed]_vars

\* ------------------------------------------------- GuiSprites::LoadGSLP

\* GuiSprites::LoadGSLP: the version and the length are tested, the sprite
\* references are read one after the other, then the text reference, and
\* _language.RegisterStrings is called on *this->text.  registered is the
\* TextData RegisterStrings was called on (<<>> when it was not called).
LoadGSLP(blk, images, text_map) ==
  IF blk.version # 11 \/ blk.size # 4 * GslpSprites + 4
  THEN [ok |-> FALSE, nread |-> 0, registered |-> <<>>]
  ELSE
    LET lp == SpriteLoop(blk.refs, images)
        t == LoadTextFromFile(blk.text, text_map)
    IN IF ~lp.ok
       THEN [ok |-> FALSE, nread |-> 4 * lp.nrefs, registered |-> <<>>]
       ELSE IF ~t.ok
       THEN [ok |-> FALSE, nread |-> 4 * GslpSprites + 4, registered |-> <<>>]
       ELSE [ok |-> TRUE, nread |-> 4 * GslpSprites + 4, registered |-> t.txt]

GslpBlock(v, s, r, t) ==
  [kind |-> "block", name |-> "GSLP", version |-> v, size |-> s, refs |-> r,
   text |-> t]

GslpBlocks ==
  {GslpBlock(v, 4 * GslpSprites + 4 + d, r, t) :
     v \in {11, 10}, d \in {0, 4}, r \in RefSeqs(GslpSprites), t \in RefIds}

\* The tables of Load when it reaches the GSLP block.
GslpTables ==
  {EmptyMap, MapAssign(EmptyMap, 1, Obj(1, 1)),
   MapAssign(MapAssign(EmptyMap, 1, Obj(1, 1)), 2, Obj(1, 2))}

InitGslp ==
  /\ Is(InitEnv)
  /\ file_hdr = [magic |-> "", version |-> 0]
  /\ nread_run = 0
  /\ lookup = NoLookup
  /\ whole \in {[blk |-> b, sprites |-> sp, texts |-> tx, called |-> FALSE,
                 h |-> NoReport, crashed |-> FALSE] :
                  b \in GslpBlocks, sp \in GslpTables, tx \in GslpTables}
  /\ txt = NoText

\* A call of _gui_sprites.LoadGSLP.  RegisterStrings on *nullptr is
\* undefined: the program stops there or goes on.
CallLoadGSLP ==
  /\ pc = "idle"
  /\ ~whole.called
  /\ LET h == LoadGSLP(whole.blk, whole.sprites, whole.texts)
     IN \E crashed \in BOOLEAN :
          /\ crashed => h.registered = Null
          /\ whole' = [whole EXCEPT !.called = TRUE, !.h = h,
                                    !.crashed = crashed]
  /\ UNCHANGED <<loadvars, lookup, txt>>

SpecGslp == InitGslp /\ [][CallLoadGSLP]_vars

\* ------------------------------------------------------ FrameSet::Load

\* The references of a frame set of n cells: those of RefSeqs, and
\* references that differ from cell to cell.
FsetRefs(n) == RefSeqs(n) \cup {[k \in 1..n |-> k % 3]}

\* FSET blocks of every tile width, with the length of their cells and 4 more.
FsetInputs ==
  UNION {{FsetBlock(v, 4 + 16 * x * y + d, w, x, y, r) :
            r \in FsetRefs(4 * x * y + (d \div 4))} :
         v \in {1, 2}, w \in {64, 32, 0}, x \in 0..MaxCells, y \in 0..MaxCells,
         d \in {0, 4}}

InitFset ==
  /\ Is(InitEnv)
  /\ file_hdr = [magic |-> "", version |-> 0]
  /\ nread_run = 0
  /\ lookup = NoLookup
  /\ whole \in {[blk |-> b, sprites |-> sp, called |-> FALSE, h |-> NoReport] :
                  b \in FsetInputs, sp \in GslpTables}
  /\ txt = NoText

\* A call of FrameSet::Load on a new FrameSet.  A pointer the load left as
\* new[] made it holds any value.
CallFrameSetLoad ==
  /\ pc = "idle"
  /\ ~whole.called
  /\ LET h == FrameSetLoad(whole.blk, whole.sprites)
     IN \E garbage \in {Null, Obj(1, 1), Indeterminate} :
          whole' = [whole EXCEPT
                      !.called = TRUE,
                      !.h = IF ~h.ok THEN h
                            ELSE [h EXCEPT !.fset.sprites =
                                    [i \in DOMAIN @ |->
                                       [c \in DOMAIN @[i] |->
                                          IF @[i][c] = Indeterminate
                                          THEN garbage ELSE @[i][c]]]]]
  /\ UNCHANGED <<loadvars, lookup, txt>>

SpecFset == InitFset /\ [][CallFrameSetLoad]_vars

\* ---------------------------------------------------------- SceneryGui

\* The values of SceneryCategory the window offers.
SCC_TREES == "SCC_TREES"
SCC_FLOWERBEDS == "SCC_FLOWERBEDS"

\* The widgets of the window, and one that is none of them.
SceneryWidgets ==
  {"SCENERY_GUI_LIST", "SCENERY_GUI_SCROLL_LIST", "SCENERY_CATEGORY_TREES",
   "SCENERY_CATEGORY_FLOWERBEDS"}

ITEM_COUNT == 5
ITEM_WIDTH == 128

\* The null SceneryType pointer and the empty unique_ptr.
NoType == 0
NoInstance == [id |-> 0, type |-> NoType, orientation |-> 0, vox_pos |-> 0]

\* _scenery.GetAllTypes(cat): the scenery types of one category, numbered.
GetAllTypes(cat) ==
  IF cat = SCC_TREES THEN [i \in 1..NumTrees |-> i]
  ELSE [i \in 1..NumFlowerbeds |-> NumTrees + i]

\* width_x and width_y of a scenery type.
TypeWidth(t) == [x |-> 1 + (t % 2), y |-> 1 + ((t \div 2) % 2)]

\* The largest start the scrollbar of a list of count items can have.
MaxStart(count) == IF count > ITEM_COUNT THEN count - ITEM_COUNT ELSE 0

\* pos.x / ITEM_WIDTH, the division of an int16 by a uint, made in unsigned
\* arithmetic of 32 bits and converted to int (w divides 2^30).
UintDiv(x, w) ==
  IF x >= 0 THEN x \div w ELSE (2^30 \div w) * 4 + (x \div w)

\* SceneryGui::SetType without its SetSize(0, 0).
SetType_KeepArea(gui, t) ==
  IF t = NoType
  THEN [gui EXCEPT !.selected_type = t, !.selector = FALSE,
                   !.instance = NoInstance]
  ELSE [gui EXCEPT !.selected_type = t, !.selector = TRUE,
                   !.instance = [id |-> gui.made + 1, type |-> t,
                                 orientation |-> gui.orientation,
                                 vox_pos |-> 0],
                   !.made = @ + 1]

\* SceneryGui::SetType.  made counts the SceneryInstance objects made so
\* far, and numbers them.
SetType(gui, t) ==
  LET set == IF t = NoType
             THEN [gui EXCEPT !.selected_type = t, !.selector = FALSE,
                              !.instance = NoInstance]
             ELSE [gui EXCEPT !.selected_type = t, !.selector = TRUE,
                              !.instance = [id |-> gui.made + 1, type |-> t,
                                            orientation |-> gui.orientation,
                                            vox_pos |-> 0],
                              !.made = @ + 1]
  IN [set EXCEPT !.area = [width |-> 0, height |-> 0]]

\* SceneryGui::SetCategory without its SetType(nullptr).
SetCategory_KeepType(gui, cat) ==
  LET list == GetAllTypes(cat)
  IN [gui EXCEPT !.category = cat,
                 !.types = list,
                 !.start = IF @ > MaxStart(Len(list))
                           THEN MaxStart(Len(list)) ELSE @,
                 !.pressed = [trees |-> cat = SCC_TREES,
                              flowerbeds |-> cat = SCC_FLOWERBEDS]]

\* SceneryGui::SetCategory.  SetItemCount keeps the start of the scrollbar
\* inside the new list.
SetCategory(gui, cat) ==
  LET cleared == SetType(gui, NoType)
      list == GetAllTypes(cat)
  IN [cleared EXCEPT !.category = cat,
                     !.types = list,
                     !.start = IF @ > MaxStart(Len(list))
                               THEN MaxStart(Len(list)) ELSE @,
                     !.pressed = [trees |-> cat = SCC_TREES,
                                  flowerbeds |-> cat = SCC_FLOWERBEDS]]

\* No click in the item list.
NoClick == [slot |-> -1, before |-> NoType]

\* The members of a SceneryGui when the body of its constructor starts,
\* with the histories the properties speak of: added is what _scenery.AddItem
\* was given, last_move what the most recent SelectorMouseMoveEvent found,
\* placed_since_move the items added since the last mouse move, op the last
\* operation, click the slot it clicked in the item list and the type
\* selected before it, and button the mouse button it was about.
RawSceneryGui ==
  [category |-> SCC_FLOWERBEDS, types |-> <<>>, selected_type |-> NoType,
   orientation |-> 0, instance |-> NoInstance, selector |-> FALSE,
   area |-> [width |-> 0, height |-> 0], start |-> 0,
   pressed |-> [trees |-> FALSE, flowerbeds |-> FALSE],
   made |-> 0, added |-> <<>>, last_move |-> "none", placed_since_move |-> 0,
   op |-> "SceneryGui", button |-> "none",
   click |-> NoClick]

\* SceneryGui::SceneryGui.
NewSceneryGui ==
  SetCategory(SetType([RawSceneryGui EXCEPT !.orientation = 0], NoType),
              SCC_TREES)

\* The type SceneryGui::DrawWidget draws in the slot k of the list (NoType
\* where it draws nothing): it draws types[i] for i from first_index to
\* min(types.size(), first_index + ITEM_COUNT) - 1, each ITEM_WIDTH further.
DrawnInSlot(gui, k) ==
  LET first_index == gui.start
      last_index == IF Len(gui.types) < first_index + ITEM_COUNT
                    THEN Len(gui.types) ELSE first_index + ITEM_COUNT
  IN IF k >= 0 /\ first_index + k < last_index
     THEN gui.types[first_index + k + 1] ELSE NoType

\* The case SCENERY_GUI_LIST of SceneryGui::OnClick.  A subscript outside
\* types is undefined behaviour, reported as the selected type -1.
ListClick(gui, x) ==
  LET index == UintDiv(x, ITEM_WIDTH)
      first_index == gui.start
  IN IF index < 0 THEN gui
     ELSE IF index < first_index \/ index + first_index >= Len(gui.types)
     THEN gui
     ELSE IF index + first_index < 0
     THEN [gui EXCEPT !.selected_type = -1]
     ELSE SetType(gui, gui.types[index + first_index + 1])

\* SceneryGui::OnClick.
OnClick(gui, number, x) ==
  IF number = "SCENERY_CATEGORY_TREES" THEN SetCategory(gui, SCC_TREES)
  ELSE IF number = "SCENERY_CATEGORY_FLOWERBEDS"
  THEN SetCategory(gui, SCC_FLOWERBEDS)
  ELSE IF number = "SCENERY_GUI_LIST"
  THEN ListClick(gui, x)
  ELSE gui

\* OrientatedOffset of the orientation 0, the only one the window has.
OrientatedOffset(orientation, x, y) == [x |-> x, y |-> y]

\* SceneryGui::SelectorMouseMoveEvent, where found says that CanPlace held
\* at some z of the loop and location is the voxel it held at.
SelectorMouseMoveEvent(gui, found, location) ==
  IF gui.instance = NoInstance
  THEN [gui EXCEPT !.last_move = "no instance", !.placed_since_move = 0]
  ELSE IF found
  THEN LET w == TypeWidth(gui.selected_type)
           off == OrientatedOffset(gui.orientation, w.x, w.y)
           extent == [x |-> IF off.x < 0 THEN -off.x ELSE off.x,
                      y |-> IF off.y < 0 THEN -off.y ELSE off.y]
       IN [gui EXCEPT !.instance.orientation = gui.orientation,
                      !.instance.vox_pos = location,
                      !.area = [width |-> extent.x, height |-> extent.y],
                      !.last_move = "found", !.placed_since_move = 0]
  ELSE [gui EXCEPT !.instance.orientation = gui.orientation,
                   !.instance.vox_pos = 0,
                   !.area = [width |-> 0, height |-> 0],
                   !.last_move = "not found", !.placed_since_move = 0]

\* SceneryGui::SelectorMouseButtonEvent, where left is IsLeftClick(state).
SelectorMouseButtonEvent(gui, left) ==
  IF gui.instance = NoInstance THEN gui
  ELSE IF ~left THEN gui
  ELSE IF gui.area.width < 1 \/ gui.area.height < 1 THEN gui
  ELSE SetType([gui EXCEPT !.added = Append(@, gui.instance),
                           !.instance = NoInstance,
                           !.placed_since_move = @ + 1],
               gui.selected_type)

\* The pos.x of the clicks in the list: the left end of every slot and of
\* one slot past the list, the right end of the first slot, and a position
\* left of the list.
ClickXs ==
  {-1, ITEM_WIDTH - 1} \cup {k * ITEM_WIDTH : k \in 0..ITEM_COUNT}

InitScenery ==
  /\ Is(InitEnv)
  /\ file_hdr = [magic |-> "", version |-> 0]
  /\ nread_run = 0
  /\ lookup = NoLookup
  /\ whole = NewSceneryGui
  /\ txt = NoText

\* A click on a widget of the window.
CallOnClick ==
  /\ pc = "idle"
  /\ whole.made < MaxInstances
  /\ \E number \in SceneryWidgets, x \in ClickXs :
       /\ number # "SCENERY_GUI_LIST" => x = 0
       /\ whole' = [OnClick(whole, number, x) EXCEPT
                      !.op = number, !.button = "none",
                      !.click = IF number = "SCENERY_GUI_LIST"
                                THEN [slot |-> x \div ITEM_WIDTH,
                                      before |-> whole.selected_type]
                                ELSE NoClick]
  /\ UNCHANGED <<loadvars, lookup, txt>>

\* The user moves the scrollbar of the list.
Scroll ==
  /\ pc = "idle"
  /\ \E s \in 0..MaxStart(Len(whole.types)) :
       /\ s # whole.start
       /\ whole' = [whole EXCEPT !.start = s, !.op = "Scroll", !.button = "none",
                                 !.click = NoClick]
  /\ UNCHANGED <<loadvars, lookup, txt>>

\* The mouse moves over the world while the window has the selector.
CallSelectorMouseMoveEvent ==
  /\ pc = "idle"
  /\ \E found \in BOOLEAN, location \in 1..MaxLocation :
       /\ ~found => location = 1
       /\ whole' = [SelectorMouseMoveEvent(whole, found, location) EXCEPT
                      !.op = "SelectorMouseMoveEvent", !.click = NoClick,
                      !.button = "none"]
  /\ UNCHANGED <<loadvars, lookup, txt>>

\* A mouse button changes while the window has the selector.
CallSelectorMouseButtonEvent ==
  /\ pc = "idle"
  /\ whole.made < MaxInstances
  /\ Len(whole.added) < MaxItems
  /\ \E left \in BOOLEAN :
       whole' = [SelectorMouseButtonEvent(whole, left) EXCEPT
                   !.op = "SelectorMouseButtonEvent", !.click = NoClick,
                   !.button = IF left THEN "left" ELSE "other"]
  /\ UNCHANGED <<loadvars, lookup, txt>>

SpecScenery ==
  InitScenery /\ [][CallOnClick \/ Scroll \/ CallSelectorMouseMoveEvent
                     \/ CallSelectorMouseButtonEvent]_vars

\* ================================================================ claims

\* The messages Load returns when it fails.
ErrorMessages ==
  {"Bad header", "Invalid INFO block.", "Image data loading failed",
   "Surface block loading failed.", "Loading Border GUI sprites failed.",
   "Text block failed to load.", "Frame set failed to load.",
   "Timed animation failed to load.", "Track piece failed to load.",
   "Error skipping unknown block.", "Path-sprites block loading failed.",
   "Path decoration block loading failed.", "Fence block loading failed.",
   "Loading main menu sprites failed.", "Animation sprites failed to load.",
   "Animation failed to load.", "Unknown animation."}

\* This step is a loop iteration in which the handler of the block fails.
HandlerFails == pc = "loop" /\ cur'.kind = "block" /\ ~last'.ok

\* Across this step, everything the blocks of the running Load put into the
\* shared registries is still there.
CommittedKept ==
  /\ \A t \in GroundTypes, i \in 1..NUM_SLOPE_SPRITES :
       surface[t][i][1] = loads => surface'[t][i] = surface[t][i]
  /\ \A w \in BorderWidgets, i \in 1..WBS_COUNT :
       /\ gui_border[w].normal[i][1] = loads =>
            gui_border'[w].normal[i] = gui_border[w].normal[i]
       /\ gui_border[w].pressed[i][1] = loads =>
            gui_border'[w].pressed[i] = gui_border[w].pressed[i]
  /\ SubSeq(blocks', 1, Len(blocks)) = blocks
  /\ \A k \in DOMAIN frame_sets :
       frame_sets[k].obj[1] = loads =>
         k \in DOMAIN frame_sets' /\ frame_sets'[k] = frame_sets[k]
  /\ \A k \in DOMAIN timed_animations :
       timed_animations[k].obj[1] = loads =>
         k \in DOMAIN timed_animations' /\ timed_animations'[k] = timed_animations[k]

\* C1: when the handler of block k fails, Load returns that handler's error
\* message at once, reads no further header, and everything the blocks
\* 1..k-1 of the file committed to the registries stays as they left it.
C1_FailKeepsCommitted ==
  [][HandlerFails =>
       /\ pc' = "idle"
       /\ result' \in ErrorMessages
       /\ nheaders' = nheaders + 1
       /\ CommittedKept]_vars

\* C2: a block that fails to decode leaves every registry exactly as it was
\* before the block was read.
C2_FailedBlockChangesNothing ==
  [][HandlerFails => UNCHANGED registries]_vars

\* C3: a handler that reads a nonzero reference to an ID that is not
\* registered fails, and Load returns an error message.
C3_DanglingRefFails ==
  last.dangling => ~last.ok /\ pc = "idle" /\ result \in ErrorMessages

\* C5: a reference resolves only to an object a strictly earlier block of
\* the same Load call registered.
C5_ResolvesInOwnLoad ==
  \A o \in last.resolved : o[1] = loads /\ o[2] < nheaders

\* C8: Load returns nullptr (success) only when the stream ends exactly at a
\* block boundary; a stream cut inside a block header is an error.
C8_NullOnlyAtBoundary ==
  result = "nullptr" => cur.kind = "eof"

\* C6: inside the loop the counter is one more than the number of block
\* headers read, so every block (INFO, unknown or registering nothing
\* included) has its ordinal as ID; the object decoded from the k-th block is
\* registered under k in exactly one of the three tables, an ID is never
\* that of a block not read yet.
C6_IdIsBlockOrdinal ==
  pc = "loop" =>
    /\ blk_num = nheaders + 1
    /\ \A k \in DOMAIN sprites : sprites[k] = Obj(loads, k)
    /\ \A k \in DOMAIN texts : texts[k] = Obj(loads, k)
    /\ \A k \in DOMAIN track_pieces : track_pieces[k] = Obj(loads, k)
    /\ (DOMAIN sprites) \cup (DOMAIN texts) \cup (DOMAIN track_pieces)
         \subseteq 1..nheaders
    /\ (DOMAIN sprites) \cap (DOMAIN texts) = {}
    /\ (DOMAIN sprites) \cap (DOMAIN track_pieces) = {}
    /\ (DOMAIN texts) \cap (DOMAIN track_pieces) = {}

\* C6 witness: the first block registered nothing, the second is a text and
\* the third a sprite, registered under 2 and 3.
C6_Witness ==
  /\ pc = "loop"
  /\ nheaders = 3
  /\ DOMAIN texts = {2}
  /\ DOMAIN sprites = {3}
  /\ cur.name = "8PXL"

\* C9: a Load on a file whose header is not ("RCDF", 2) returns
\* "Bad header": no block header is read, no table is filled and no
\* registry changes.
C9_BadHeaderReadsNothing ==
  [][(pc = "idle" /\ loads' = loads + 1
        /\ ~(file_hdr'.magic = "RCDF" /\ file_hdr'.version = 2)) =>
       /\ pc' = "idle"
       /\ result' = "Bad header"
       /\ nheaders' = 0
       /\ cur' = NoInput
       /\ sprites' = EmptyMap /\ texts' = EmptyMap /\ track_pieces' = EmptyMap
       /\ UNCHANGED registries]_vars

\* C9 witness: a second Load was refused for its header after the first had
\* filled registries.
C9_Witness ==
  /\ loads = 2
  /\ result = "Bad header"
  /\ file_hdr.magic = "RCDX"
  /\ blocks # <<>>
  /\ nheaders = 0

\* C10 as stated: every handler rejects, before it parses any payload byte,
\* a version other than the expected one and a length other than the exact
\* expected size.
C10_ExactSizeBeforeParsing ==
  (/\ cur.kind = "block"
   /\ \/ cur.name = "SURF" /\ (cur.version # 6 \/ cur.size # 2 + 2 + 2 + 4 * NUM_SLOPE_SPRITES)
      \/ cur.name = "GBOR" /\ (cur.version # 2 \/ cur.size # 2 + 8 + 4 * WBS_COUNT)
      \/ cur.name = "FSET" /\ (cur.version # 1 \/ cur.size # 4 + 16 * cur.width_x * cur.width_y)
      \/ cur.name = "TIMA" /\ (cur.version # 1 \/ cur.size # 4 + 8 * cur.frames))
  => ~last.ok /\ last.nread = 0

\* C10: every handler rejects a wrong version before it parses any payload
\* byte.  SURF and GBOR, of fixed size, also reject any other length before
\* parsing.  FSET and TIMA reject a length below 4 before parsing and a
\* length other than the one their counts give after reading those 4 bytes.
\* TEXT checks no length before parsing.
C10_ChecksBeforeParsing ==
  cur.kind = "block" =>
    /\ (cur.name = "SURF" /\ (cur.version # 6 \/ cur.size # 2 + 2 + 2 + 4 * NUM_SLOPE_SPRITES))
         => ~last.ok /\ last.nread = 0 /\ result = "Surface block loading failed."
    /\ (cur.name = "GBOR" /\ (cur.version # 2 \/ cur.size # 2 + 8 + 4 * WBS_COUNT))
         => ~last.ok /\ last.nread = 0 /\ result = "Loading Border GUI sprites failed."
    /\ (cur.name = "TEXT" /\ cur.version # 2)
         => ~last.ok /\ last.nread = 0 /\ result = "Text block failed to load."
    /\ (cur.name = "FSET" /\ (cur.version # 1 \/ cur.size < 4))
         => ~last.ok /\ last.nread = 0 /\ result = "Frame set failed to load."
    /\ (cur.name = "TIMA" /\ (cur.version # 1 \/ cur.size < 4))
         => ~last.ok /\ last.nread = 0 /\ result = "Timed animation failed to load."
    /\ (cur.name = "FSET" /\ cur.size # 4 + 16 * cur.width_x * cur.width_y)
         => ~last.ok /\ last.nread <= 4
    /\ (cur.name = "TIMA" /\ cur.size # 4 + 8 * cur.frames)
         => ~last.ok /\ last.nread <= 4

\* C10 witness: a frame set of the right version whose length is not the
\* one its counts give is rejected after its first four bytes were read.
C10_Witness ==
  /\ cur.kind = "block"
  /\ cur.name = "FSET"
  /\ cur.version = 1
  /\ cur.size = 24
  /\ ~last.ok
  /\ last.nread = 4
  /\ result = "Frame set failed to load."

\* C4: a reference of value 0 succeeds and yields no object, whatever the
\* table holds (a table with an entry under 0 included): it is not looked up.
C4_ZeroIsNoObject ==
  (lookup.done /\ lookup.val = 0) => lookup.ok /\ lookup.obj = Null

\* C4 witness: the sprite and the text lookup of 0 in a table that has an
\* entry under 0, and in one that is empty.
C4_Witness ==
  /\ lookup.done
  /\ lookup.val = 0
  /\ lookup.kind = "text"
  /\ 0 \in DOMAIN lookup.table
  /\ lookup.ok

\* The file without its i-th block / with another block in its place.
RemoveAt(f, i) == SubSeq(f, 1, i - 1) \o SubSeq(f, i + 1, Len(f))
ReplaceAt(f, i, b) == [f EXCEPT ![i] = b]

\* What Load("a.rcd") makes of the state after construction.
Outcome(hdr, file) == RunLoad(Open(InitEnv, "a.rcd", hdr), file)

\* The blocks of the loaded file that carry a tag Load does not know.
UnknownAt == {i \in DOMAIN whole.file : whole.file[i].name \notin RecognizedTags}

\* C7 as stated, for the unknown blocks whose payload is all in the stream:
\* such a block is never fatal, and the result of Load is that of the file
\* without the block.
C7_SameAsWithout ==
  whole.done =>
    \A i \in UnknownAt :
      whole.file[i].avail >= whole.file[i].size =>
        Outcome(whole.hdr, RemoveAt(whole.file, i)).result = result

\* C7: an unknown block whose payload is all there is skipped by its
\* declared length: nothing changes but the counter, the loop goes on, and
\* the result and the registries of Load are those of the file with an INFO
\* block of that length in its place (the block keeps its ordinal).  One
\* whose payload is cut short ends Load with "Error skipping unknown block.".
C7_UnknownSkipped ==
  whole.done =>
    \A i \in UnknownAt :
      LET b      == whole.file[i]
          before == RunBlocks(Open(InitEnv, "a.rcd", whole.hdr),
                              SubSeq(whole.file, 1, i - 1))
          after  == Step(before, b)
          alt    == Outcome(whole.hdr,
                            ReplaceAt(whole.file, i, [b EXCEPT !.name = "INFO"]))
      IN before.pc = "loop" =>
           IF b.avail >= b.size
           THEN /\ after.pc = "loop"
                /\ after.blk_num = before.blk_num + 1
                /\ after.last.nread = b.size
                /\ after.sprites = before.sprites
                /\ after.texts = before.texts
                /\ after.track_pieces = before.track_pieces
                /\ after.surface = before.surface
                /\ after.gui_border = before.gui_border
                /\ after.blocks = before.blocks
                /\ after.frame_sets = before.frame_sets
                /\ after.timed_animations = before.timed_animations
                /\ alt.result = result
                /\ alt.surface = surface
                /\ alt.blocks = blocks
                /\ alt.frame_sets = frame_sets
                /\ alt.timed_animations = timed_animations
           ELSE result = "Error skipping unknown block."

\* C7 witness: Load succeeded on a file whose unknown first block is
\* followed by blocks that registered an image and used it.
C7_Witness ==
  /\ whole.done
  /\ result = "nullptr"
  /\ Len(whole.file) = 3
  /\ 1 \in UnknownAt
  /\ whole.file[2].name = "8PXL"
  /\ surface["GTP_GRASS0"][2] = Obj(1, 2)

\* ---------------------------------------------------------------- C19

\* The ground type bytes the claim lists.
SurfaceCodes == {16, 17, 18, 19, 20, 32, 48, 49}

\* This step is a loop iteration on a SURF block of the version and length
\* LoadSURF asks for.
SurfStep ==
  /\ pc = "loop"
  /\ cur'.kind = "block"
  /\ cur'.name = "SURF"
  /\ cur'.version = 6
  /\ cur'.size = 2 + 2 + 2 + 4 * NUM_SLOPE_SPRITES

\* C19: LoadSURF accepts a block only with a ground type byte among 16, 17,
\* 18, 19, 20, 32, 48, 49; with any other byte the block fails, Load returns
\* the surface message and no surface sprite of any ground type has changed.
C19_UnknownGroundFails ==
  [][SurfStep =>
       /\ last'.ok => cur'.gt \in SurfaceCodes
       /\ cur'.gt \notin SurfaceCodes =>
            /\ ~last'.ok
            /\ result' = "Surface block loading failed."
            /\ surface' = surface]_vars

\* C19 witness: a SURF block with ground type 99 has failed after an
\* earlier SURF block filled the sprites of the grass, which are still there.
C19_Witness ==
  /\ cur.kind = "block"
  /\ cur.name = "SURF"
  /\ cur.gt = 99
  /\ ~last.ok
  /\ last.nread = 2
  /\ result = "Surface block loading failed."
  /\ surface["GTP_GRASS0"][1] = Obj(loads, 1)

\* ---------------------------------------------------------------- C20

\* This step is a loop iteration on a PATH block.
PathStep == pc = "loop" /\ cur'.kind = "block" /\ cur'.name = "PATH"

\* C20: LoadPATH accepts a block only if the low 15 bits of its type are 4,
\* 8, 12 or 16.  After a success the status of the path type addressed is
\* PAS_QUEUE_PATH if bit 0x8000 of the type is set and PAS_NORMAL_PATH if
\* not, and the other path types keep their status and their sprites.  A
\* PATH block that fails changes the status of no path type.
C20_PathStatus ==
  [][PathStep =>
       LET pt == PathType(cur'.type % 32768)
       IN /\ last'.ok =>
               /\ (cur'.type % 32768) \in {4, 8, 12, 16}
               /\ path_sprites'[pt].status =
                    (IF cur'.type >= 32768 THEN "PAS_QUEUE_PATH"
                     ELSE "PAS_NORMAL_PATH")
               /\ \A o \in PathTypes \ {pt} : path_sprites'[o] = path_sprites[o]
          /\ ~last'.ok =>
               \A o \in PathTypes :
                 path_sprites'[o].status = path_sprites[o].status]_vars

\* C20 witness: a PATH block of type 0x8008 made the tiled path a queue
\* path while the wooden path, loaded before with its sprite, stays normal.
C20_Witness ==
  /\ cur.kind = "block"
  /\ cur.name = "PATH"
  /\ cur.type = 32776
  /\ last.ok
  /\ path_sprites["PAT_TILED"].status = "PAS_QUEUE_PATH"
  /\ path_sprites["PAT_WOOD"].status = "PAS_NORMAL_PATH"
  /\ path_sprites["PAT_WOOD"].sprites[1] = Obj(loads, 1)
  /\ path_sprites["PAT_ASPHALT"].status = "PAS_UNUSED"

\* ---------------------------------------------------------------- C12

\* C12: no block ends Load by a failed assert: every failure is a message,
\* and a FENC or ANSP block its Load accepted has the width of the store
\* (64), a fence a type below FENCE_TYPE_COUNT, as AddFence and
\* AddAnimationSprites assert.
C12_AcceptedMeetsAsserts ==
  /\ pc # "aborted"
  /\ (cur.kind = "block" /\ cur.name \in {"FENC", "ANSP"} /\ last.ok) =>
       cur.width = StoreSize
  /\ (cur.kind = "block" /\ cur.name = "FENC" /\ last.ok) =>
       cur.type < FENCE_TYPE_COUNT

\* ---------------------------------------------------------------- C11

\* The tags whose handlers are in src/ with every read they make.
CountedTags ==
  {"MENU", "PDEC", "TEXT", "SURF", "GBOR", "PATH", "FENC", "ANSP", "FSET", "TIMA"}

TextDone ==
  cur.kind = "block" /\ cur.name = "TEXT" /\ pc # "text" /\ txt.status = "returned"

\* Every length field of the block says what the encoder wrote.
Tiles(blk) ==
  /\ blk.dsize = 0
  /\ \A i \in DOMAIN blk.strs :
       /\ blk.strs[i].dn = 0
       /\ blk.strs[i].ds = 0
       /\ \A j \in DOMAIN blk.strs[i].trans :
            blk.strs[i].trans[j].dl = 0 /\ blk.strs[i].trans[j].dt = 0

\* C13: TextData::Load succeeds only on a block whose declared lengths tile
\* it exactly; a block with one length field off by one fails.  While the
\* loop runs, the bytes read and the bytes left add up to the length of the
\* header, and neither of the asserts on the lengths fails.
C13_LengthsTileExactly ==
  /\ TextDone => (txt.ok => Tiles(cur)) /\ ~txt.abort
  /\ (pc = "text" /\ txt.status = "run") =>
       txt.length >= 0 /\ (txt.pos - 1) + txt.length = cur.size

\* C13 witness: a block of two strings whose second translation length is
\* one too large has failed to decode.
C13_Witness ==
  /\ TextDone
  /\ Len(cur.strs) = 2
  /\ cur.strs[2].trans[1].dt = 1
  /\ ~txt.ok
  /\ result = "Text block failed to load."

\* ---------------------------------------------------------------- C15

\* The bytes s are well-formed UTF-8: every byte starts a character whose
\* continuation bytes follow, or is a continuation byte of one.
ValidUtf8(s) ==
  \A j \in 1..Len(s) :
    IF s[j] >= 128 /\ s[j] < 192
    THEN \E d \in 1..3 :
           /\ j - d >= 1
           /\ Utf8Length(s[j - d]) > d
           /\ \A i \in 1..(d - 1) : s[j - i] >= 128 /\ s[j - i] < 192
    ELSE /\ Utf8Length(s[j]) > 0
         /\ j + Utf8Length(s[j]) - 1 <= Len(s)
         /\ \A i \in 1..(Utf8Length(s[j]) - 1) : s[j + i] >= 128 /\ s[j + i] < 192

\* The bytes s are a NUL-terminated UTF-8 string whose first NUL is its last
\* byte.
ValidText(s) ==
  /\ Len(s) >= 1
  /\ s[Len(s)] = 0
  /\ \A j \in 1..(Len(s) - 1) : s[j] # 0
  /\ ValidUtf8(s)

\* The language of the translation is one of the program.
KnownLanguage(t) == ValidText(t.lang) /\ GetLanguageIndex(t.lang) >= 0

\* The names and the texts of the block that Load stores, in their order.
StoredTexts(strs) ==
  Concat([i \in DOMAIN strs |->
            <<strs[i].name>> \o
            [j \in 1..Len(SelectSeq(strs[i].trans, KnownLanguage)) |->
               SelectSeq(strs[i].trans, KnownLanguage)[j].text]])

\* Every name, language name and text of the block is a valid text.
ValidTexts(strs) ==
  \A i \in DOMAIN strs :
    /\ ValidText(strs[i].name)
    /\ \A j \in DOMAIN strs[i].trans :
         ValidText(strs[i].trans[j].lang) /\ ValidText(strs[i].trans[j].text)

\* C15: a TEXT block decodes only if each of its names, language names and
\* texts is well-formed UTF-8 with its first NUL as the last byte of its
\* declared length (malformed UTF-8, no NUL, a byte after the NUL and length
\* 0 all fail); then used_size is the sum of the declared lengths of the
\* names and texts stored, and every pointer of the table points at such a
\* string.
C15_StoredTextsValid ==
  (TextDone /\ txt.ok) =>
    /\ ValidTexts(cur.strs)
    /\ txt.used_size = Len(Concat(StoredTexts(cur.strs)))
    /\ \A i \in 1..txt.obj.string_count :
         /\ ValidText(CString(txt.obj.text_data, txt.obj.strings[i].name) \o <<0>>)
         /\ \A l \in 0..(LANGUAGE_COUNT - 1) :
              txt.obj.strings[i].languages[l] # NoString =>
                ValidText(CString(txt.obj.text_data,
                                  txt.obj.strings[i].languages[l]) \o <<0>>)

\* C15 witness: a block whose text has a byte after its NUL has failed, and
\* in the same Load a block with a character of two bytes was stored.
C15_Witness ==
  /\ TextDone
  /\ ~txt.ok
  /\ Len(cur.strs) = 1
  /\ cur.strs[1].trans[1].text = <<72, 0, 105, 0>>
  /\ \E o \in DOMAIN text_data :
       /\ o[1] = loads
       /\ text_data[o].string_count = 2
       /\ CString(text_data[o].text_data, text_data[o].strings[2].languages[1])
            = <<195, 169>>

\* ---------------------------------------------------------------- C16

\* The strings without the translations in languages the program has not.
KnownOnly(strs) ==
  [i \in DOMAIN strs |-> [strs[i] EXCEPT !.trans = SelectSeq(@, KnownLanguage)]]

\* The block is well-formed, one translation or more is in a language the
\* program has not, and every string has one in a language it has.
HasUnknown(blk) ==
  /\ blk.version = 2
  /\ Tiles(blk)
  /\ ValidTexts(blk.strs)
  /\ KnownOnly(blk.strs) # blk.strs
  /\ \A i \in DOMAIN blk.strs : KnownOnly(blk.strs)[i].trans # <<>>

\* C16: a translation in a language the program does not have is read and
\* dropped, whatever the length of its text: the block decodes, it is read
\* to its end, and its table is that of the block without the translation.
C16_UnknownLanguageDropped ==
  (TextDone /\ HasUnknown(cur)) =>
    /\ txt.ok
    /\ last.nread = cur.size
    /\ txt.obj = TextDataLoad(TextBlock(2, KnownOnly(cur.strs), 0)).obj

\* ---------------------------------------------------------------- C17

\* The text of the last translation of the string str in language l, no
\* byte when it has none.
Translated(str, l) ==
  LET in == {j \in DOMAIN str.trans :
               KnownLanguage(str.trans[j]) /\ GetLanguageIndex(str.trans[j].lang) = l}
  IN IF in = {} THEN <<>>
     ELSE str.trans[CHOOSE j \in in : \A k \in in : k <= j].text

\* The table obj is that of the strings strs.
TableOf(obj, strs) ==
  /\ obj.string_count = Len(strs)
  /\ Len(obj.strings) = Len(strs)
  /\ \A i \in DOMAIN strs :
       /\ CString(obj.text_data, obj.strings[i].name) \o <<0>> = strs[i].name
       /\ \A l \in 0..(LANGUAGE_COUNT - 1) :
            IF Translated(strs[i], l) = <<>>
            THEN obj.strings[i].languages[l] = NoString
            ELSE /\ obj.strings[i].languages[l] # NoString
                 /\ CString(obj.text_data, obj.strings[i].languages[l]) \o <<0>>
                      = Translated(strs[i], l)

\* C17: the table of a TEXT block of version 2 that decoded has one entry
\* per string, with the name of the string and, per language of the program,
\* the text of its translation (null when it has none); and a well-formed
\* block all of whose translations are in languages of the program decodes.
C17_TableIsTheStrings ==
  /\ (TextDone /\ txt.ok) => TableOf(txt.obj, cur.strs)
  /\ (TextDone /\ cur.version = 2 /\ Tiles(cur) /\ ValidTexts(cur.strs)
      /\ KnownOnly(cur.strs) = cur.strs) => txt.ok

\* C17 witness: the block with the string NAME and en_GB = Hello has been
\* decoded and registered: one entry, its English string is Hello, its Dutch
\* string null.
C17_Witness ==
  /\ TextDone
  /\ cur.strs = OneString(en_GB, Hello)
  /\ txt.ok
  /\ txt.obj.string_count = 1
  /\ CString(txt.obj.text_data, txt.obj.strings[1].name) = <<78, 65, 77, 69>>
  /\ CString(txt.obj.text_data, txt.obj.strings[1].languages[0])
       = <<72, 101, 108, 108, 111>>
  /\ txt.obj.strings[1].languages[1] = NoString
  /\ text_data[Obj(loads, nheaders)] = txt.obj

\* ---------------------------------------------------------------- C18

\* C18: when the decoding of a TEXT block fails, Load returns false and the
\* TextData is as its constructor left it; the loop returns the message of
\* the TEXT branch, the block is not in the text table and not among the
\* managed blocks.
C18_FailureLeavesNothing ==
  (TextDone /\ ~txt.ok) =>
    /\ ~txt.abort
    /\ txt.obj = NewTextData
    /\ pc = "idle"
    /\ result = "Text block failed to load."
    /\ \A k \in DOMAIN texts : texts[k] # Obj(loads, nheaders)
    /\ \A k \in DOMAIN blocks : blocks[k] # Obj(loads, nheaders)
    /\ Obj(loads, nheaders) \notin DOMAIN text_data

\* C18 witness: the second TEXT block of a file has failed after its first
\* string was read; the first block of the file is still registered.
C18_Witness ==
  /\ TextDone
  /\ ~txt.ok
  /\ nheaders = 2
  /\ txt.used_strings = 1
  /\ blocks = <<Obj(loads, 1)>>
  /\ DOMAIN text_data = {Obj(loads, 1)}

\* C14: the limits of the TEXT decoder are hard.  In every state of the
\* decoding the strings read are at most MAX_NUM_TEXT_STRINGS (512) and the
\* bytes stored at most TEXT_BUFFER_SIZE (65536), the table and the buffer
\* hold exactly those and nothing past their end; a well-formed block with
\* more strings than 512, or with names and texts of more than 65536 bytes,
\* fails to decode, and the others, up to exactly 512 strings and exactly
\* 65536 bytes, are accepted.
C14_LimitsAreHard ==
  /\ pc = "text" =>
       /\ txt.used_strings <= MAX_NUM_TEXT_STRINGS
       /\ txt.used_size <= TEXT_BUFFER_SIZE
       /\ Len(txt.strings) = txt.used_strings
       /\ PagedLen(txt.buffer) = txt.used_size
  /\ TextDone =>
       /\ txt.used_strings <= MAX_NUM_TEXT_STRINGS
       /\ txt.used_size <= TEXT_BUFFER_SIZE
       /\ ~txt.abort
       /\ txt.ok <=> /\ cur.nstrings <= MAX_NUM_TEXT_STRINGS
                     /\ cur.stored <= TEXT_BUFFER_SIZE
       /\ txt.ok => /\ txt.obj.string_count = cur.nstrings
                    /\ PagedLen(txt.obj.text_data) = cur.stored

\* C14 witness: a block of exactly 512 strings and 65536 stored bytes was
\* accepted.
C14_Witness ==
  /\ TextDone
  /\ txt.ok
  /\ cur.nstrings = MAX_NUM_TEXT_STRINGS
  /\ cur.stored = TEXT_BUFFER_SIZE
  /\ txt.used_strings = MAX_NUM_TEXT_STRINGS
  /\ txt.used_size = TEXT_BUFFER_SIZE

\* ---------------------------------------------------------------- C21

\* This step is a loop iteration on an ANIM or an ANSP block.
AnimStep ==
  pc = "loop" /\ cur'.kind = "block" /\ cur'.name \in {"ANIM", "ANSP"}

\* The block has what the claim asks of an ANIM or ANSP block.
WellFormedAnim(blk) ==
  /\ blk.person \in {0, 8, 16, 17, 18, 19, 20}
  /\ blk.at >= ANIM_BEGIN
  /\ blk.at <= ANIM_LAST
  /\ blk.frame_count # 0
  /\ blk.name = "ANIM" =>
       /\ blk.size = 5 + 6 * blk.frame_count
       /\ \A i \in 1..blk.frame_count :
            /\ 0 < blk.frames[i].duration
            /\ blk.frames[i].duration < 5000
            /\ blk.frames[i].dx \in -100..100
            /\ blk.frames[i].dy \in -100..100
  /\ blk.name = "ANSP" => blk.size = 7 + 4 * blk.frame_count

\* Every animation and every animation sprites object that is registered has
\* a person type and an animation type.
RegisteredValid(registered) ==
  \A a \in registered :
    /\ a.person_type # "PERSON_INVALID"
    /\ a.anim_type # ANIM_INVALID
    /\ a.anim_type \in ANIM_BEGIN..ANIM_LAST

\* C21: an ANIM or ANSP block is accepted only with a person type byte among
\* 0, 8, 16, 17, 18, 19, 20 (8 and 16 are both the guest), an animation type
\* from ANIM_BEGIN to ANIM_LAST, a frame count that is not 0 and the base
\* length plus 6 (ANIM) or 4 (ANSP) bytes a frame, the frames of an ANIM
\* block with 0 < duration < 5000 and dx, dy from -100 to 100.  Nothing with
\* the person type PERSON_INVALID or the animation type ANIM_INVALID is ever
\* registered.
C21_AnimationsValid ==
  [][/\ AnimStep =>
          /\ last'.ok => WellFormedAnim(cur')
          /\ (last'.ok /\ cur'.name = "ANIM") =>
               [anim_type |-> cur'.at,
                person_type |-> IF cur'.person \in {8, 16} THEN "PERSON_GUEST"
                                ELSE DecodePersonType(cur'.person),
                obj |-> Obj(loads', nheaders')] \in manager_animations'
          /\ ~last'.ok =>
               /\ manager_animations' = manager_animations
               /\ animations' = animations
     /\ RegisteredValid(manager_animations' \cup animations')]_vars

\* C21 witness: an ANIM block with the person type byte 8 was accepted and
\* its animation is registered for the guest, while animation sprites of
\* another person type are in the store.
C21_Witness ==
  /\ cur.kind = "block"
  /\ cur.name = "ANIM"
  /\ cur.person = 8
  /\ last.ok
  /\ [anim_type |-> cur.at, person_type |-> "PERSON_GUEST",
      obj |-> Obj(loads, nheaders)] \in manager_animations
  /\ \E a \in animations : a.person_type = "PERSON_GUARD"

\* ---------------------------------------------------------------- C22

\* What a Load left in the manager e: what it returned and the blocks, the
\* texts, the frame sets and the timed animations it decoded.
Decoded(e) ==
  [result |-> e.result, blocks |-> e.blocks, text_data |-> e.text_data,
   frame_sets |-> e.frame_sets, timed_animations |-> e.timed_animations,
   surface |-> e.surface, animations |-> e.animations]

\* C22: the Loads of the same well-formed file, each into a manager of its
\* own that starts as the constructor leaves it, return the same and leave
\* equal sprites, texts and types in their managers.
C22_LoadTwiceEqual ==
  /\ \A i, j \in DOMAIN whole.others :
       Decoded(whole.others[i]) = Decoded(whole.others[j])
  /\ whole.done =>
       \A i \in DOMAIN whole.others : Decoded(whole.others[i]) = Decoded(Env)

\* ---------------------------------------------------------------- C23

\* The first n names of the collection.
FirstNames(n) == [i \in 1..n |-> CollectionNames[i]]

\* LoadRcdFiles can make no further call of Load.
LoadingOver == pc = "aborted" \/ whole.returned

\* C23: LoadRcdFiles calls Load once for every file of the collection, in
\* the order of the collection, and never again: the calls made are always
\* the first files of the collection, one call each; a file whose Load
\* failed is reported and the files after it are loaded all the same, so
\* that when the loading is over every file of the collection was loaded.
C23_EveryFileLoadedOnce ==
  /\ whole.calls = FirstNames(whole.entry - 1)
  /\ whole.entry <= Len(whole.rcdfiles) + 1
  /\ \A i \in DOMAIN whole.printed : whole.printed[i][2] \in ErrorMessages
  /\ LoadingOver => whole.calls = FirstNames(Len(whole.rcdfiles))

\* ---------------------------------------------------------------- C24

\* The Loader is where a caller may open a block.
AtBlock == whole.phase = "load" /\ Len(Pending(whole.ldr)) >= 8

\* The next bytes of the stream are this name.
NameNext(ldr, name) == GetBlob(Pending(ldr), 1, 4) = name

\* The version stored behind the name.
VersionNext(ldr) == LongOf(GetBlob(Pending(ldr), 5, 4))

\* C24: with another name next in the stream, OpenBlock(name, false) fails
\* with a LoadingError and OpenBlock(name, true) returns the value for "no
\* such block" without failing; with the name next in the stream both
\* return the version stored and open the scope.
C24_OpenBlockMayFail ==
  AtBlock =>
    \A name \in BlockNames :
      LET strict == OpenBlock(whole.ldr, name, FALSE)
          probe == OpenBlock(whole.ldr, name, TRUE)
      IN IF NameNext(whole.ldr, name)
         THEN /\ ~Failed(strict) /\ ~Failed(probe)
              /\ strict.ret = VersionNext(whole.ldr)
              /\ probe = strict
              /\ NameOf(strict.scopes) = name
         ELSE /\ Failed(strict) /\ strict.fail_msg.kind = "LoadingError"
              /\ ~Failed(probe) /\ probe.ret = NoBlock
              /\ probe.scopes = whole.ldr.scopes

\* A probe for a block that is not there has returned, with the block of
\* another name still to be opened.
C24_Witness ==
  /\ AtBlock
  /\ whole.ldr.ret = NoBlock
  /\ whole.ldr.cache_count > 0
  /\ \E name \in SavedNames : NameNext(whole.ldr, name)

\* ---------------------------------------------------------------- C25

\* What the next n calls of GetByte return.
RECURSIVE Reads(_, _)
Reads(ldr, n) ==
  IF n = 0 THEN <<>>
  ELSE <<GetByte(ldr).ret>> \o Reads(GetByte(ldr), n - 1)

\* C25: after OpenBlock(name, true) has returned "no such block", the reads
\* return the bytes they would have returned without the call, the bytes
\* pushed back first and in the order of the stream, and OpenBlock with the
\* name that is in the stream succeeds as it would have without the call.
C25_ProbeRestoresStream ==
  AtBlock =>
    \A name \in BlockNames :
      LET probe == OpenBlock(whole.ldr, name, TRUE)
          n == Len(Pending(whole.ldr))
      IN probe.ret = NoBlock /\ ~NameNext(whole.ldr, name) =>
           /\ Reads(probe, n) = Reads(whole.ldr, n)
           /\ Reads(probe, n) = Pending(whole.ldr)
           /\ probe.scopes = whole.ldr.scopes
           /\ \A there \in BlockNames :
                NameNext(whole.ldr, there) =>
                  /\ ~Failed(OpenBlock(probe, there, FALSE))
                  /\ OpenBlock(probe, there, FALSE).ret = VersionNext(whole.ldr)
                  /\ OpenBlock(probe, there, FALSE).scopes
                       = OpenBlock(whole.ldr, there, FALSE).scopes
                  /\ Pending(OpenBlock(probe, there, FALSE))
                       = Pending(OpenBlock(whole.ldr, there, FALSE))

\* A probe for PLYR has read three bytes of a block PLAN and pushed them
\* back.
C25_Witness ==
  /\ AtBlock
  /\ whole.ldr.ret = NoBlock
  /\ whole.ldr.cache_count = 3
  /\ NameNext(whole.ldr, PLAN)
  /\ whole.ldr.fp # <<>>

\* ---------------------------------------------------------------- C26

\* The innermost open scope of the Loader.
Top(ldr) == ldr.scopes[Len(ldr.scopes)]

\* The caller of the Loader has a block open whose version it cannot read.
Mismatch(w) ==
  /\ w.phase = "load"
  /\ w.ldr.scopes # <<>>
  /\ Top(w.ldr).version # CurrentVersion

\* What version_mismatch does for the block that is open.
Raised(ldr) ==
  version_mismatch(ldr, Top(ldr).name, Top(ldr).version, CurrentVersion)

\* C26: for a block saved at a version the reader does not read,
\* version_mismatch fails with a LoadingError whose message has the name of
\* the block, the version saved and the version of the reader; the load is
\* over with it: no block is restored after it.
C26_VersionMismatchFatal ==
  [][/\ Mismatch(whole) =>
          /\ Failed(Raised(whole.ldr))
          /\ Raised(whole.ldr).fail_msg.kind = "LoadingError"
          /\ Raised(whole.ldr).fail_msg.name = whole.ldr.blk_name
          /\ \E i \in DOMAIN whole.svr.started :
               /\ whole.svr.started[i].name = Raised(whole.ldr).fail_msg.name
               /\ whole.svr.started[i].version
                    = Raised(whole.ldr).fail_msg.saved_version
          /\ Raised(whole.ldr).fail_msg.saved_version # CurrentVersion
          /\ Raised(whole.ldr).fail_msg.current_version = CurrentVersion
          /\ Raised(whole.ldr).restored = whole.ldr.restored
     /\ Failed(whole.ldr) => whole'.ldr.restored = whole.ldr.restored
     /\ Failed(whole'.ldr) => whole'.phase = "failed"]_vars

\* A load that version_mismatch ended, for a block saved at version 3 behind
\* a block that was restored.
C26_Witness ==
  /\ whole.phase = "failed"
  /\ whole.ldr.fail_msg.kind = "LoadingError"
  /\ whole.ldr.fail_msg.text = "Version mismatch"
  /\ whole.ldr.fail_msg.saved_version = 3
  /\ Len(whole.ldr.restored) = 1
  /\ whole.ldr.fp # <<>>

\* ---------------------------------------------------------------- C27

\* C27: the cache of the Loader never holds more than its 8 bytes: the
\* count stays in 0..8 over the reads and the pushes, a push on the full
\* cache ends the program and changes nothing, and every push writes a
\* cell of cache[0..7].
C27_CacheBounded ==
  /\ whole.ldr.cache_count \in 0..CacheSize
  /\ whole.ldr.wrote \in 0..(CacheSize - 1)
  /\ DOMAIN whole.ldr.cache = 0..(CacheSize - 1)
  /\ \A val \in PushedBytes :
       whole.phase = "load" =>
       IF whole.ldr.cache_count = CacheSize
       THEN /\ PutByte(whole.ldr, val).fail_msg.kind = "fatal"
            /\ PutByte(whole.ldr, val).cache = whole.ldr.cache
            /\ PutByte(whole.ldr, val).cache_count = CacheSize
       ELSE /\ ~Failed(PutByte(whole.ldr, val))
            /\ PutByte(whole.ldr, val).cache_count = whole.ldr.cache_count + 1
  /\ Failed(whole.ldr) => whole.phase = "failed"

\* A push on the full cache has ended the program.
C27_Witness ==
  /\ whole.phase = "failed"
  /\ whole.ldr.fail_msg = [kind |-> "fatal", text |-> "cache full"]
  /\ whole.ldr.cache_count = CacheSize
  /\ whole.ldr.wrote = CacheSize - 1

\* ---------------------------------------------------------------- C28

\* The scopes of x after a step are those before it, or those with one
\* scope more, or those without the innermost.
Bracketed(before, after) ==
  \/ after = before
  \/ after # <<>> /\ Outer(after) = before
  \/ before # <<>> /\ after = Outer(before)

FrameBegin(anim, i) == SumDurations(anim.durations, i)

\* Frame i is the frame shown at the time: the time is in its interval.
ShownAt(anim, i, time) ==
  /\ i \in 0..(anim.frames - 1)
  /\ FrameBegin(anim, i) <= time
  /\ time < FrameBegin(anim, i + 1)

\* C29: GetFrame returns the frame shown at the time, and -1 only for a
\* call that has no frame: with a positive total duration, a call that
\* does not loop and has 0 <= time < total returns the frame whose interval
\* holds the time, and a call that loops returns the frame for the time
\* modulo the total duration.
C29_FrameAtTime ==
  (whole.called /\ GetTotalDuration(whole.anim) > 0 /\ whole.time >= 0) =>
    LET total == GetTotalDuration(whole.anim)
    IN /\ (~whole.loop_around /\ whole.time < total) =>
            ShownAt(whole.anim, whole.frame, whole.time)
       /\ whole.loop_around =>
            ShownAt(whole.anim, whole.frame, whole.time % total)

\* ---------------------------------------------------------------- C30

\* C30: the two asserts of TextData::Load hold whenever they are reached,
\* whatever the block holds and whatever size its header declares:
\* trs_length is 0 when the loop over the translations of a string is left,
\* and length is 0 when the loop over the strings is left. The unsigned
\* length never goes below 0 and trs_length is never negative, also when
\* Load returns false in the middle of a string.
C30_TextAssertsHold ==
  /\ pc # "aborted"
  /\ pc = "text" =>
       /\ txt.status \in {"run", "fail"}
       /\ txt.length \in 0..cur.size
       /\ txt.trs_length >= 0
       /\ txt.status = "run" => txt.trs_length = 0
       /\ (txt.status = "run" /\ ~(txt.length > 0)) => txt.length = 0
  /\ TextDone => ~txt.abort /\ result # "assertion failed"

\* Load has returned true on a block of two strings, each with translations:
\* both asserts were reached, the first for either string.
C30_Witness ==
  /\ TextDone
  /\ txt.ok
  /\ txt.used_strings = 2
  /\ \A i \in DOMAIN cur.strs : Len(cur.strs[i].trans) >= 1
  /\ result = "running"

\* ---------------------------------------------------------------- C31

\* The animation sprites are registered for the pair of the block.
ForPair(a, blk) ==
  a.anim_type = blk.at /\ a.person_type = DecodePersonType(blk.person)

\* The object a was made before the object b.
MadeBefore(a, b) == a[1] < b[1] \/ (a[1] = b[1] /\ a[2] < b[2])

\* This step is a loop iteration that accepted a block of the name.
Accepted(name) ==
  /\ pc = "loop"
  /\ cur'.kind = "block"
  /\ cur'.name = name
  /\ last'.ok
  /\ pc' # "aborted"

\* C31: an ANIM block that is loaded for an animation type and a person type
\* removes from the store every animation sprites entry of that animation
\* type and person type and leaves every other entry; an accepted ANSP block
\* adds its entry and no other step changes the entries.  So the sprites
\* registered for a pair are those of the ANSP blocks loaded after the last
\* ANIM block of the pair: none is older than an animation of its pair.
C31_AnimReplacesSprites ==
  [][/\ Accepted("ANIM") =>
          animations' = {a \in animations : ~ForPair(a, cur')}
     /\ Accepted("ANSP") =>
          animations' = animations
                          \cup {[anim_type |-> cur'.at,
                                 person_type |-> DecodePersonType(cur'.person),
                                 obj |-> Obj(loads', nheaders')]}
     /\ (~Accepted("ANIM") /\ ~Accepted("ANSP")) => animations' = animations
     /\ \A a \in animations', m \in manager_animations' :
          (a.anim_type = m.anim_type /\ a.person_type = m.person_type)
            => MadeBefore(m.obj, a.obj)]_vars

\* C31 witness: an ANIM block for the guest was accepted, animation sprites
\* that had been loaded left the store, and the sprites of the same animation
\* type for another person type are still there.
C31_Witness ==
  /\ cur.kind = "block"
  /\ cur.name = "ANIM"
  /\ last.ok
  /\ DecodePersonType(cur.person) = "PERSON_GUEST"
  /\ Len(blocks) > Cardinality(manager_animations) + Cardinality(animations)
  /\ \E a \in animations :
       a.anim_type = cur.at /\ a.person_type = "PERSON_GUARD"

\* ---------------------------------------------------------------- C32

\* The length is 4 + 8 * frames, the product not wrapping.
ExactLength(size, frames) ==
  /\ frames >= 0
  /\ size >= 4
  /\ (size - 4) % 8 = 0
  /\ (size - 4) \div 8 = frames

\* C32: TimedAnimation::Load accepts a TIMA block only if its length is
\* 4 + 8 * frames for the frame count of 32 bits, without wraparound: a
\* count whose 8 * frames wraps modulo 2^32 and a count that is negative as
\* a signed value of 32 bits are rejected, and an accepted block never reads
\* more than its length.
C32_LengthWithoutWraparound ==
  whole.called =>
    /\ whole.h.fault = "none"
    /\ whole.h.ok =>
         /\ ExactLength(whole.blk.size, whole.blk.frames)
         /\ whole.h.nread <= whole.blk.size

\* ---------------------------------------------------------------- C33

\* The FrameSet objects store.frame_sets owns.
OwnedFrameSets == {frame_sets[k].obj : k \in DOMAIN frame_sets}

\* The FrameSet pointers in the views of the stored timed animations.
StoredViews ==
  UNION {{timed_animations[k].data.views[f] :
            f \in DOMAIN timed_animations[k].data.views} :
         k \in DOMAIN timed_animations}

\* C33: over any sequence of Load calls (a load of the same file name again
\* and a load that fails midway among them), every FrameSet pointer that is
\* not null in the views of a TimedAnimation of store.timed_animations
\* refers to a FrameSet store.frame_sets still owns: no stored
\* TimedAnimation is left pointing at a destroyed FrameSet.
C33_ViewsOwned ==
  pc = "idle" => StoredViews \ {Null} \subseteq OwnedFrameSets

\* ---------------------------------------------------------------- C34

\* C34: GuiSprites::LoadGSLP never dereferences an absent text block:
\* RegisterStrings is called only on a text reference that resolved to a
\* TextData that is not null, and a GSLP block whose text reference is 0
\* makes the load fail and does not reach the dereference.
C34_TextNeverNull ==
  whole.called =>
    /\ whole.h.registered # Null
    /\ whole.blk.text = 0 => ~whole.h.ok

\* ---------------------------------------------------------------- C35

\* GetFrame leaves at its guard on the call.
AtGuard(anim, time, loop_around) ==
  \/ GetTotalDuration(anim) <= 0
  \/ ~loop_around /\ GetTotalDuration(anim) > time

\* C35: NOT_REACHED in TimedAnimation::GetFrame is not reachable: for every
\* frame count, every list of durations and every time, the function returns
\* -1 at the guard or returns from inside the loop an index i with
\* 0 <= i < frames.
C35_NotReachedUnreachable ==
  whole.called =>
    /\ whole.frame # NotReached
    /\ IF AtGuard(whole.anim, whole.time, whole.loop_around)
       THEN whole.frame = -1
       ELSE whole.frame \in 0..(whole.anim.frames - 1)

\* ---------------------------------------------------------------- C36

\* This step is a loop iteration on a GBOR block.
GborStep == pc = "loop" /\ cur'.kind = "block" /\ cur'.name = "GBOR"

\* The border widget a GBOR block of the widget type is for.
WidgetOf(tp) ==
  CASE tp = 1 -> "left_tabbar"
    [] tp \in {2, 3} -> "tab_tabbar"
    [] tp = 4 -> "right_tabbar"
    [] tp = 5 -> "tabbar_panel"
    [] tp = 6 -> "titlebar"
    [] tp \in {7, 8} -> "button"
    [] tp = 9 -> "panel"

\* C36: a GBOR block writes only the sprite array its widget type selects:
\* the types 2 and 8 write the pressed sprites of their target (tab_tabbar,
\* button) and leave its normal sprites, the other types write the normal
\* sprites and leave the pressed ones, and the sprites and the metrics of
\* every other border widget stay; a GBOR block with a type that is not
\* from 1 to 9 changes nothing.
C36_OnlySelectedArray ==
  [][GborStep =>
       IF cur'.tp \notin 1..9 THEN gui_border' = gui_border
       ELSE /\ \A w \in BorderWidgets \ {WidgetOf(cur'.tp)} :
                 gui_border'[w] = gui_border[w]
            /\ IF cur'.tp \in {2, 8}
               THEN /\ gui_border'[WidgetOf(cur'.tp)].normal
                         = gui_border[WidgetOf(cur'.tp)].normal
                    /\ last'.ok =>
                         gui_border'[WidgetOf(cur'.tp)].pressed
                           = [i \in 1..WBS_COUNT |-> sprites[cur'.refs[i]]]
               ELSE /\ gui_border'[WidgetOf(cur'.tp)].pressed
                         = gui_border[WidgetOf(cur'.tp)].pressed
                    /\ last'.ok =>
                         gui_border'[WidgetOf(cur'.tp)].normal
                           = [i \in 1..WBS_COUNT |-> sprites[cur'.refs[i]]]]_vars

\* C36 witness: a GBOR block of the type 8 was accepted and its sprites are
\* the pressed sprites of the button, whose normal sprites an earlier block
\* of the type 7 had set.
C36_Witness ==
  /\ cur.kind = "block"
  /\ cur.name = "GBOR"
  /\ cur.tp = 8
  /\ last.ok
  /\ \A i \in 1..WBS_COUNT :
       /\ gui_border["button"].pressed[i] # Null
       /\ gui_border["button"].normal[i] # Null
       /\ gui_border["tab_tabbar"].pressed[i] = Null

\* ---------------------------------------------------------------- C37

\* The sprite the reference number n (from 0) of the payload resolves to.
ResolvedRef(blk, table, n) ==
  IF blk.refs[n + 1] = 0 THEN Null ELSE table[blk.refs[n + 1]]

\* C37: after a FrameSet::Load that succeeded, for every view i from 0 to 3
\* and every cell (x, y) with x < width_x and y < width_y,
\* sprites[i][x * width_y + y] is the sprite the reference of the cell in
\* the payload resolved to (null for the reference 0), for every tile width
\* the block declares; the load succeeds only if the length is
\* 4 + 16 * width_x * width_y.
C37_CellsHoldTheirSprites ==
  (whole.called /\ whole.h.ok) =>
    LET blk == whole.blk
    IN /\ blk.size = 4 + 16 * blk.width_x * blk.width_y
       /\ \A i \in 0..3, x \in 0..(blk.width_x - 1), y \in 0..(blk.width_y - 1) :
            whole.h.fset.sprites[i][x * blk.width_y + y]
              = ResolvedRef(blk, whole.sprites,
                            i * blk.width_x * blk.width_y + x * blk.width_y + y)

\* ---------------------------------------------------------------- C38

\* C38: a click in the item list at the slot k = pos.x / ITEM_WIDTH selects
\* the type DrawWidget draws in the slot k, types[first_index + k] with
\* first_index the start of the scrollbar, whenever first_index + k is less
\* than types.size(), at every scroll position; otherwise the selection is
\* unchanged; and types is never indexed out of range.
C38_ClickSelectsDrawn ==
  whole.op = "SCENERY_GUI_LIST" =>
    LET k == whole.click.slot
        first_index == whole.start
    IN /\ whole.selected_type # -1
       /\ IF k >= 0 /\ first_index + k < Len(whole.types)
          THEN /\ whole.selected_type = whole.types[first_index + k + 1]
               /\ k < ITEM_COUNT => whole.selected_type = DrawnInSlot(whole, k)
          ELSE whole.selected_type = whole.click.before

\* ---------------------------------------------------------------- C39

\* C39: after every operation of the window, instance is non-null exactly
\* when selected_type is non-null, a non-null instance was made for
\* selected_type, selected_type is null or one of types, types are the
\* types of the current category, and exactly one of the two category tabs
\* is pressed, the one of the current category.
C39_WindowConsistent ==
  /\ (whole.instance # NoInstance) <=> (whole.selected_type # NoType)
  /\ whole.instance # NoInstance => whole.instance.type = whole.selected_type
  /\ \/ whole.selected_type = NoType
     \/ \E i \in DOMAIN whole.types : whole.types[i] = whole.selected_type
  /\ whole.types = GetAllTypes(whole.category)
  /\ whole.pressed.trees <=> whole.category = SCC_TREES
  /\ whole.pressed.flowerbeds <=> whole.category = SCC_FLOWERBEDS
  /\ whole.pressed.trees # whole.pressed.flowerbeds

\* An item of the second category has been placed, and the window is ready
\* to place the next one.
C39_Witness ==
  /\ whole.op = "SelectorMouseButtonEvent"
  /\ whole.category = SCC_FLOWERBEDS
  /\ whole.added # <<>>
  /\ whole.selected_type # NoType
  /\ whole.instance # NoInstance

\* ---------------------------------------------------------------- C40

\* What holds between the calls of the window: no more than one item was
\* added since the last mouse move, no instance was added twice or is still
\* the instance of the window, every added instance is at a voxel, and the
\* area of the selector is 1x1 or more only if the last mouse move found a
\* voxel where CanPlace held.
PlacedOnce ==
  /\ whole.placed_since_move <= 1
  /\ \A i, j \in DOMAIN whole.added :
       i # j => whole.added[i].id # whole.added[j].id
  /\ \A i \in DOMAIN whole.added :
       /\ whole.added[i].id # whole.instance.id
       /\ whole.added[i].vox_pos \in 1..MaxLocation
  /\ (whole.area.width >= 1 /\ whole.area.height >= 1)
       => whole.last_move = "found"

\* What holds of a step that adds an item.
PlacementStep ==
  whole'.added # whole.added =>
    /\ whole'.op = "SelectorMouseButtonEvent"
    /\ whole'.button = "left"
    /\ whole.instance # NoInstance
    /\ whole.area.width >= 1 /\ whole.area.height >= 1
    /\ whole.last_move = "found"
    /\ whole'.added = Append(whole.added, whole.instance)
    /\ whole'.area = [width |-> 0, height |-> 0]
    /\ whole'.instance # NoInstance
    /\ whole'.instance.id # whole.instance.id
    /\ whole'.instance.type = whole.instance.type

\* C40: SelectorMouseButtonEvent gives an instance to _scenery.AddItem only
\* on a left click, with an instance, and with a selector area of 1x1 or
\* more, which is so only if the most recent SelectorMouseMoveEvent found a
\* position where CanPlace held; each placement sets the area to 0x0 and
\* makes a new instance of the same type, so two clicks without a mouse
\* move between them add one item at most and no instance is added twice.
C40_PlacesOncePerMove == []PlacedOnce /\ [][PlacementStep]_vars

\* Two items were placed, each after a mouse move of its own.
C40_Witness ==
  /\ Len(whole.added) = 2
  /\ whole.op = "SelectorMouseButtonEvent"
  /\ whole.button = "left"
  /\ whole.placed_since_move = 1

====
